---- MODULE Spec2Model ----
(***************************************************************************)
(* Job pipeline of BlueSkyMap: the polling JobProcessor (processingJobs    *)
(* set, 5 s tick, stuck-job sweep), the EventEmitter JobProcessor (daily   *)
(* refresh quota, retry with backoff), the Job model (fail, complete,      *)
(* incrementRefreshCount, findNextJob) and the network-analysis handler's  *)
(* effect on the job record.                                               *)
(*                                                                         *)
(* Time is counted in whole seconds.  Every `await` of the source is a     *)
(* point where other callbacks may run and where the clock may advance.    *)
(* A database operation (find, insert, update) is atomic at the store; a   *)
(* document held by a callback is a private copy that may be stale.        *)
(***************************************************************************)
EXTENDS Integers, Sequences, FiniteSets, Bags, TLC

\* ---------------------------------------------------------------- bounds
MaxJobs == 2          \* job records inserted by createJob (polling model)
MaxWorkers == 2       \* processNextJob invocations in flight at once
MaxCalls == 2         \* createJob calls in flight at once
MaxSpawns == 3        \* processNextJob invocations that obtain a job (polling model)
MaxAdvances == 2      \* clock advances explored (polling model)
EEMaxJobs == 2        \* job records created in the EventEmitter model
EEMaxCalls == 1       \* createJob calls in flight at once (EventEmitter model)
EEMaxAdvances == 3    \* clock advances explored (EventEmitter model)
QuotaAdvances == 1    \* clock advances explored (quota model)
CapJobs == 11         \* job records in the findNextJob model
MaxDequeuers == 2     \* findNextJob calls in flight at once
MaxNodes == 3         \* nodes of a graph handed to detectCommunities
MaxEdges == 3         \* edges of a graph handed to detectCommunities
MaxRuns == 2          \* detectCommunities calls on one graph
MaxMutuals == 2       \* mutual connection records handed to createGraph
MaxExtra == 2         \* additional edges handed to createGraph
MaxList == 2          \* accounts in a followers or following list
MaxRlCalls == 3       \* checkRateLimit calls made
MaxRlTime == 4        \* units of time the rate limiter is observed for
MaxRqCalls == 4       \* queueRequest calls made
MaxRqTicks == 3       \* clock steps the request queue is observed for
MaxRetries == 3       \* the retries argument of apiRequest
MaxLost == 2          \* times another request clears the session during one apiRequest
MaxCacheCalls == 1    \* getUserProfile / getUserConnections calls in flight at once
MaxCacheTicks == 2    \* clock steps the cache is observed for
MaxAnalysisTicks == 2 \* clock steps between and during analysis attempts

\* ------------------------------------------------------ program constants
PRIORITY_HANDLE == "gui.do"
DAILY_REFRESH_LIMIT == 5
MAX_CONCURRENT_JOBS == 10
MAX_ATTEMPTS == 3
STUCK_THRESHOLD == 300
DAY == 86400
\* Number.MAX_SAFE_INTEGER, clipped to 32 bits: only its
\* order against the priorities passed to createJob matters
MAX_SAFE_INTEGER == 2147483647

Handles == {PRIORITY_HANDLE, "alice"}
Dids == {"did:1", "did:2"}
ConnectionTypes == {"follower", "following"}
Priorities == {0, 1}
JobStatus == {"pending", "in_progress", "processing", "completed", "failed", "rateLimited"}
NoTime == -1

VARIABLES
  jobs,            \* the Job collection, in insertion order; the index is _id
  now,             \* Date.now(), in seconds
  processingJobs,  \* polling JobProcessor.processingJobs
  handlers,        \* TRUE when a handler is registered for networkAnalysis
  workers,         \* bag of in-flight processNextJob invocations (polling processor)
  calls,           \* bag of in-flight createJob calls (polling processor)
  timers,          \* jobs whose retry timer (setTimeout in processJob) is pending
  sweep,           \* stuck jobs found by checkStuckJobs and not yet reset
  spawns,          \* number of processNextJob invocations that obtained a job so far
  processingInterval, \* polling JobProcessor.processingInterval: TRUE while the interval is set
  isProcessing,    \* EventEmitter JobProcessor.isProcessing (interval running)
  isProcessingJob, \* EventEmitter JobProcessor.isProcessingJob
  jobHandlers,     \* TRUE when the EventEmitter processor has a handler registered
  currentJob,      \* the job whose handler the EventEmitter processor awaits, or 0
  eeCalls,         \* bag of in-flight createJob calls (EventEmitter processor)
  counted,         \* findNextJob calls that passed the count and have not updated yet
  starts,          \* history: handler invocations per handle in the current UTC day
  hist,            \* history per job: handler outcomes, backoff delays, failed ever
  graph,           \* the NetworkData handed to detectCommunities
  runs,            \* the community lists returned by the detectCommunities calls so far
  cgArgs,          \* history: the arguments of the createGraph call that built graph, if any
  trace,           \* history: per detectCommunities call, the node visits and the passes of its loop
  followers,       \* findMutualConnections: the followers argument
  following,       \* findMutualConnections: the following argument
  mutualList,      \* findMutualConnections: the list returned, once it has returned
  mutualCheck,     \* the areMutuallyConnected call: its position, arguments, fetches and result
  requestQueue,    \* RateLimiter.requestQueue: timestamps of the requests in the window
  lastRequestTime, \* RateLimiter.lastRequestTime
  rlCalls,         \* bag of in-flight checkRateLimit calls
  admitted,        \* history: per returned checkRateLimit call, the timestamp pushed and the time of return
  rqQueue,         \* RequestQueue.requestQueue: the tracked requests, by id
  rqLast,          \* RequestQueue.lastRequestTime
  rqCalls,         \* in-flight queueRequest calls: id -> position in queueRequest
  dispatched,      \* history: the times at which request functions were started
  api,             \* the apiRequest call chain: position, retries left, calls issued
  userProfileCache, \* the UserProfileCache collection: per handle, the document if there is one
  connectionCache, \* the ConnectionCache collection of one user: per connection did, the document if any
  cacheCalls,      \* bag of in-flight getUserProfile / getUserConnections calls, with what they saw
  lastReturn,      \* history: the cache call that has just finished, with what it returned and wrote
  lastForced,      \* history: per type, the list delivered by a forced refetch that has just completed
  analysis,        \* NetworkAnalysisService.processJob: the position of the attempt under way
  progress,        \* history: the progress updates emitted by the attempt, in order
  networkAnalysis  \* the NetworkAnalysis collection for the subject: the stored analysis if any

pollVars == <<processingJobs, handlers, workers, calls, timers, sweep, spawns, processingInterval>>
eeVars == <<isProcessing, isProcessingJob, jobHandlers, currentJob, eeCalls, starts, hist>>
graphVars == <<graph, runs, cgArgs, trace>>
mutVars == <<followers, following, mutualList, mutualCheck>>
rlVars == <<requestQueue, lastRequestTime, rlCalls, admitted>>
rqVars == <<rqQueue, rqLast, rqCalls, dispatched>>
cacheVars == <<userProfileCache, connectionCache, cacheCalls, lastReturn, lastForced>>
progVars == <<analysis, progress, networkAnalysis>>
svcVars == <<cacheVars, progVars>>
libVars == <<graphVars, mutVars, rlVars, rqVars, api, svcVars>>
jobVars == <<jobs, pollVars, eeVars, counted>>
vars == <<jobs, now, pollVars, eeVars, counted, libVars>>

\* --------------------------------------------------------------- helpers
RECURSIVE Pow2(_)
Pow2(n) == IF n <= 0 THEN 1 ELSE 2 * Pow2(n - 1)

JobIds == DOMAIN jobs

NewJob(h, p, st, err, t) ==
  [handle |-> h, status |-> st, priority |-> p, attempts |-> 0,
   nextAttempt |-> NoTime, startedAt |-> NoTime, createdAt |-> t,
   error |-> err, refreshCount |-> 0, lastRefreshDate |-> t]

\* jobSchema.methods.complete: status and completedAt are written
complete(js, j) == [js EXCEPT ![j].status = "completed"]

\* jobSchema.methods.fail: status, error and completedAt are written
fail(js, j, msg) == [js EXCEPT ![j].status = "failed", ![j].error = msg]

\* ------------------------------------------- polling JobProcessor: queries
\* the filter of getNextJob
Eligible(js, pj, t) ==
  {j \in DOMAIN js : /\ j \notin pj
                     /\ js[j].status = "pending"
                     /\ (js[j].nextAttempt = NoTime \/ js[j].nextAttempt <= t)}

\* sort {priority: -1, createdAt: 1} and take the first.  createdAt has
\* millisecond resolution in the program and whole seconds here: records
\* created in the same second are ordered by insertion (the index).
SortFirst(js, E) ==
  {j \in E : \A k \in E \ {j} :
     \/ js[j].priority > js[k].priority
     \/ /\ js[j].priority = js[k].priority
        /\ \/ js[j].createdAt < js[k].createdAt
           \/ js[j].createdAt = js[k].createdAt /\ j < k}

\* getNextJob: the selected document, if any
getNextJob(js, pj, t) == SortFirst(js, Eligible(js, pj, t))

\* getCurrentJob: findOne without a sort, any matching document
getCurrentJob(js, h) ==
  {j \in DOMAIN js : js[j].handle = h /\ js[j].status \in {"pending", "in_progress"}}

IsStuck(doc, t) ==
  /\ doc.status = "in_progress"
  /\ doc.startedAt # NoTime
  /\ doc.startedAt < t - STUCK_THRESHOLD

Put(b, e) == b (+) SetToBag({e})
Take(b, e) == b (-) SetToBag({e})

\* processNextJob up to the point where getNextJob has answered: the new
\* invocation holds a copy of the selected document, or has returned
processNextJob(ws, js, pj, t, ws2) ==
  LET found == getNextJob(js, pj, t) IN
  IF found = {} THEN ws2 = ws /\ spawns' = spawns
  ELSE /\ BagCardinality(ws) < MaxWorkers
       /\ spawns < MaxSpawns
       /\ spawns' = spawns + 1
       /\ \E j \in found :
            ws2 = Put(ws, [pc |-> "got", id |-> j, attempts |-> js[j].attempts])

\* ------------------------------------------------------------------ Init
NoHist == [out |-> << >>, delays |-> << >>, failed |-> FALSE]

\* graphProcessor is stateless: no graph built, no call made
GraphIdle ==
  /\ graph = [nodes |-> << >>, edges |-> << >>]
  /\ runs = << >>
  /\ cgArgs = << >>
  /\ trace = << >>

\* findMutualConnections not called
MutIdle ==
  /\ followers = << >>
  /\ following = << >>
  /\ mutualList = << >>
  /\ mutualCheck = [pc |-> "idle"]

\* the RateLimiter after construction
RlIdle ==
  /\ requestQueue = << >>
  /\ lastRequestTime = 0
  /\ rlCalls = EmptyBag
  /\ admitted = << >>

\* the RequestQueue singleton after construction
RqIdle ==
  /\ rqQueue = {}
  /\ rqLast = 0
  /\ rqCalls = << >>
  /\ dispatched = << >>

\* no apiRequest call made
ApiIdle == api = [pc |-> "idle"]

\* the cache collections empty, no cache call made
CacheIdle ==
  /\ userProfileCache = [h \in Handles |-> << >>]
  /\ connectionCache = [d \in Dids |-> << >>]
  /\ cacheCalls = EmptyBag
  /\ lastReturn = << >>
  /\ lastForced = [t \in ConnectionTypes |-> << >>]

\* no analysis attempt made
ProgIdle ==
  /\ analysis = [pc |-> "idle"]
  /\ progress = << >>
  /\ networkAnalysis = << >>

SvcIdle == CacheIdle /\ ProgIdle

LibIdle == GraphIdle /\ MutIdle /\ RlIdle /\ RqIdle /\ ApiIdle /\ SvcIdle

\* the EventEmitter processor after construction
EEIdle ==
  /\ isProcessing = FALSE
  /\ isProcessingJob = FALSE
  /\ jobHandlers = FALSE
  /\ currentJob = 0
  /\ eeCalls = EmptyBag
  /\ starts = [h \in Handles |-> 0]
  /\ hist = << >>

\* the polling processor after construction
PollIdle ==
  /\ processingJobs = {}
  /\ handlers = FALSE
  /\ workers = EmptyBag
  /\ calls = EmptyBag
  /\ timers = {}
  /\ sweep = {}
  /\ spawns = 0
  /\ processingInterval = TRUE

Init ==
  /\ jobs = << >>
  /\ now = 0
  /\ PollIdle
  /\ EEIdle
  /\ counted = 0
  /\ LibIdle

\* ------------------------------------------- polling JobProcessor: actions
registerHandler ==
  /\ handlers' = TRUE
  /\ processNextJob(workers, jobs, processingJobs, now, workers')
  /\ UNCHANGED <<jobs, now, processingJobs, calls, timers, sweep>>
  /\ UNCHANGED <<processingInterval, eeVars, counted, libVars>>

\* the setInterval callback: processNextJob() and checkStuckJobs() up to its find
Tick ==
  /\ processingInterval
  /\ processNextJob(workers, jobs, processingJobs, now, workers')
  /\ sweep' = sweep \cup {j \in JobIds : IsStuck(jobs[j], now)}
  /\ UNCHANGED <<jobs, now, processingJobs, handlers, calls, timers>>
  /\ UNCHANGED <<processingInterval, eeVars, counted, libVars>>

\* checkStuckJobs, one iteration of the loop over stuckJobs
checkStuckJobs(j) ==
  /\ j \in sweep
  /\ jobs' = [jobs EXCEPT ![j].status = "pending", ![j].startedAt = NoTime]
  /\ processingJobs' = processingJobs \ {j}
  /\ sweep' = sweep \ {j}
  /\ UNCHANGED <<now, handlers, workers, calls, timers, spawns>>
  /\ UNCHANGED <<processingInterval, eeVars, counted, libVars>>

\* createJob up to the answer of getCurrentJob
createJob(h, p) ==
  /\ BagCardinality(calls) < MaxCalls
  /\ Len(jobs) + BagCardinality(calls) < MaxJobs
  /\ LET cur == getCurrentJob(jobs, h) IN
     IF cur = {}
     THEN calls' = Put(calls, [pc |-> "insert", handle |-> h, priority |-> p, id |-> 0])
     ELSE \E e \in cur :
            IF IsStuck(jobs[e], now)
            THEN calls' = Put(calls, [pc |-> "reset", handle |-> h, priority |-> p, id |-> e])
            ELSE calls' = calls
  /\ UNCHANGED <<jobs, now, processingJobs, handlers, workers, timers, sweep, spawns>>
  /\ UNCHANGED <<processingInterval, eeVars, counted, libVars>>

\* createJob: job.save() of the new record, then processNextJob()
createJobSave(c) ==
  /\ c.pc = "insert"
  /\ Len(jobs) < MaxJobs
  /\ jobs' = Append(jobs, NewJob(c.handle, c.priority, "pending", "", now))
  /\ processNextJob(workers, jobs', processingJobs, now, workers')
  /\ calls' = Take(calls, c)
  /\ UNCHANGED <<now, processingJobs, handlers, timers, sweep>>
  /\ UNCHANGED <<processingInterval, eeVars, counted, libVars>>

\* createJob: the reset of an existing job that looked stuck
createJobReset(c) ==
  /\ c.pc = "reset"
  /\ jobs' = [jobs EXCEPT ![c.id].status = "pending", ![c.id].startedAt = NoTime]
  /\ processingJobs' = processingJobs \ {c.id}
  /\ processNextJob(workers, jobs', processingJobs', now, workers')
  /\ calls' = Take(calls, c)
  /\ UNCHANGED <<now, handlers, timers, sweep>>
  /\ UNCHANGED <<processingInterval, eeVars, counted, libVars>>

\* the catch branch of processJob for a document with `att` attempts
processJobCatch(js, j, att, t) ==
  IF att >= MAX_ATTEMPTS
  THEN fail(js, j, "handler error")
  ELSE [js EXCEPT ![j].nextAttempt = t + Pow2(att), ![j].status = "failed"]

\* setTimeout(..., backoff): the timer is due when the job's nextAttempt is
retryTimer(tm, j, att) ==
  IF att >= MAX_ATTEMPTS THEN tm ELSE tm \cup {j}

\* processJob from its entry to the first save
processJob(w) ==
  /\ w.pc = "got"
  /\ IF w.id \in processingJobs
     THEN /\ workers' = Take(workers, w)
          /\ UNCHANGED <<jobs, processingJobs, timers>>
     ELSE IF ~handlers
     THEN /\ jobs' = processJobCatch(jobs, w.id, w.attempts, now)
          /\ timers' = retryTimer(timers, w.id, w.attempts)
          /\ workers' = Take(workers, w)
          /\ UNCHANGED processingJobs
     ELSE /\ processingJobs' = processingJobs \cup {w.id}
          /\ jobs' = [jobs EXCEPT ![w.id].status = "in_progress",
                                  ![w.id].startedAt = now,
                                  ![w.id].attempts = w.attempts + 1]
          /\ workers' = Put(Take(workers, w),
                            [pc |-> "started", id |-> w.id, attempts |-> w.attempts + 1])
          /\ UNCHANGED timers
  /\ UNCHANGED <<now, handlers, calls, sweep, spawns>>
  /\ UNCHANGED <<processingInterval, eeVars, counted, libVars>>

\* the handler: job.status = PENDING; await job.save()
handlerReset(w) ==
  /\ w.pc = "started"
  /\ jobs' = [jobs EXCEPT ![w.id].status = "pending"]
  /\ workers' = Put(Take(workers, w), [w EXCEPT !.pc = "running"])
  /\ UNCHANGED <<now, processingJobs, handlers, calls, timers, sweep, spawns>>
  /\ UNCHANGED <<processingInterval, eeVars, counted, libVars>>

\* the handler returns a result: job.complete(), finally
handlerReturns(w) ==
  /\ w.pc = "running"
  /\ jobs' = complete(jobs, w.id)
  /\ processingJobs' = processingJobs \ {w.id}
  /\ workers' = Take(workers, w)
  /\ UNCHANGED <<now, handlers, calls, timers, sweep, spawns>>
  /\ UNCHANGED <<processingInterval, eeVars, counted, libVars>>

\* the handler throws: catch branch, finally
handlerThrows(w) ==
  /\ w.pc = "running"
  /\ jobs' = processJobCatch(jobs, w.id, w.attempts, now)
  /\ timers' = retryTimer(timers, w.id, w.attempts)
  /\ processingJobs' = processingJobs \ {w.id}
  /\ workers' = Take(workers, w)
  /\ UNCHANGED <<now, handlers, calls, sweep, spawns>>
  /\ UNCHANGED <<processingInterval, eeVars, counted, libVars>>

\* setTimeout(() => this.processNextJob(), backoff)
retryFires(j) ==
  /\ j \in timers
  /\ jobs[j].nextAttempt <= now
  /\ timers' = timers \ {j}
  /\ processNextJob(workers, jobs, processingJobs, now, workers')
  /\ UNCHANGED <<jobs, now, processingJobs, handlers, calls, sweep>>
  /\ UNCHANGED <<processingInterval, eeVars, counted, libVars>>

\* stop(): clearInterval(this.processingInterval); this.processingInterval = null
stop ==
  /\ processingInterval
  /\ processingInterval' = FALSE
  /\ UNCHANGED <<jobs, now, processingJobs, handlers, workers, calls, timers, sweep, spawns>>
  /\ UNCHANGED <<eeVars, counted, libVars>>

\* the clock: only jumps past the staleness threshold are explored
TimeStep == STUCK_THRESHOLD + 1

AdvanceTime ==
  /\ now \div TimeStep < MaxAdvances
  /\ now' = now + TimeStep
  /\ UNCHANGED <<jobs, processingJobs, handlers, workers, calls, timers, sweep, spawns>>
  /\ UNCHANGED <<processingInterval, eeVars, counted, libVars>>


\* ------------------------------------------------ EventEmitter JobProcessor
Today(t) == (t \div DAY) * DAY

eeEligible_notFinished(js, t) ==
  {j \in DOMAIN js : /\ js[j].status \in {"pending", "rateLimited"}
                     /\ (js[j].nextAttempt = NoTime \/ js[j].nextAttempt <= t)}

\* the filter of the findOne in processNextJob
eeEligible(js, t) ==
  {j \in DOMAIN js : /\ js[j].status = "pending"
                     /\ (js[j].nextAttempt = NoTime \/ js[j].nextAttempt <= t)}

\* sort: {priority: -1, createdAt: 1}
eeFindNext(js, t) == SortFirst(js, eeEligible(js, t))

\* the quota check of createJob: findOne({handle, lastRefreshDate >= today}),
\* any matching document, and the test on its refreshCount
quotaRecords(js, h, t) ==
  {j \in DOMAIN js : js[j].handle = h /\ js[j].lastRefreshDate >= Today(t)}

overLimit(doc) == doc.refreshCount >= DAILY_REFRESH_LIMIT

storedPriority(h, p) == IF h = PRIORITY_HANDLE THEN MAX_SAFE_INTEGER ELSE p

\* jobSchema.methods.incrementRefreshCount
incrementRefreshCount(doc, t) ==
  [doc EXCEPT !.refreshCount = IF doc.lastRefreshDate < Today(t) THEN 1 ELSE doc.refreshCount + 1,
              !.lastRefreshDate = t]

eeBackoff_constant(att) == 1

\* Math.pow(2, attempts - 1) * 1000 ms
eeBackoff(att) == Pow2(att - 1)

\* the catch branch of processNextJob for job j, whose attempts are already counted
eeCatch(js, j, t) ==
  IF js[j].attempts < MAX_ATTEMPTS
  THEN [js EXCEPT ![j].nextAttempt = t + eeBackoff(js[j].attempts), ![j].status = "pending"]
  ELSE fail(js, j, "handler error")

eeCatchHist(hs, js, j, o) ==
  IF js[j].attempts < MAX_ATTEMPTS
  THEN [hs EXCEPT ![j].out = Append(@, o), ![j].delays = Append(@, eeBackoff(js[j].attempts))]
  ELSE [hs EXCEPT ![j].out = Append(@, o), ![j].failed = TRUE]

\* start(); the server registers the handler before it calls start()
start ==
  /\ jobHandlers
  /\ ~isProcessing
  /\ isProcessing' = TRUE
  /\ UNCHANGED <<jobs, now, pollVars, libVars, isProcessingJob, jobHandlers, currentJob, eeCalls, starts, hist, counted>>

eeStop ==
  /\ isProcessing
  /\ isProcessing' = FALSE
  /\ UNCHANGED <<jobs, now, pollVars, libVars, isProcessingJob, jobHandlers, currentJob, eeCalls, starts, hist, counted>>

eeRegisterHandler ==
  /\ ~jobHandlers
  /\ jobHandlers' = TRUE
  /\ UNCHANGED <<jobs, now, pollVars, libVars, isProcessing, isProcessingJob, currentJob, eeCalls, starts, hist, counted>>

\* createJob up to the answer of the quota query and the construction of the record
eeCreateJob(h, p, max) ==
  /\ BagCardinality(eeCalls) < EEMaxCalls
  /\ Len(jobs) + BagCardinality(eeCalls) < max
  /\ LET recs == quotaRecords(jobs, h, now)
         pend == [handle |-> h, priority |-> storedPriority(h, p), status |-> "pending",
                  error |-> "", t |-> now]
         lim == [handle |-> h, priority |-> p, status |-> "rateLimited",
                 error |-> "Daily refresh limit exceeded", t |-> now] IN
     IF h = PRIORITY_HANDLE \/ recs = {}
     THEN eeCalls' = Put(eeCalls, pend)
     ELSE \E e \in recs :
            eeCalls' = Put(eeCalls, IF overLimit(jobs[e]) THEN lim ELSE pend)
  /\ UNCHANGED <<jobs, now, pollVars, libVars, isProcessing, isProcessingJob, jobHandlers, currentJob, starts, hist, counted>>

\* createJob: job.save() of the new record
eeCreateJobSave(c) ==
  /\ jobs' = Append(jobs, NewJob(c.handle, c.priority, c.status, c.error, c.t))
  /\ hist' = Append(hist, NoHist)
  /\ eeCalls' = Take(eeCalls, c)
  /\ UNCHANGED <<now, pollVars, libVars, isProcessing, isProcessingJob, jobHandlers, currentJob, starts, counted>>

\* the interval callback and processNextJob up to the call of the handler
eeProcessNextJob ==
  /\ isProcessing
  /\ ~isProcessingJob
  /\ \E j \in eeFindNext(jobs, now) :
       \* startedAt is written too; this processor never reads it
       LET claimed == [jobs EXCEPT ![j].status = "processing",
                                   ![j].attempts = @ + 1] IN
       IF ~jobHandlers
       THEN /\ jobs' = eeCatch(claimed, j, now)
            /\ hist' = eeCatchHist(hist, claimed, j, "none")
            /\ UNCHANGED <<isProcessingJob, currentJob, starts>>
       ELSE /\ jobs' = [claimed EXCEPT ![j] = incrementRefreshCount(@, now)]
            /\ isProcessingJob' = TRUE
            /\ currentJob' = j
            /\ starts' = [starts EXCEPT ![jobs[j].handle] = @ + 1]
            /\ UNCHANGED hist
  /\ UNCHANGED <<now, pollVars, libVars, isProcessing, jobHandlers, eeCalls, counted>>

\* the handler returns: currentJob.complete(), finally
eeHandlerReturns ==
  /\ currentJob # 0
  /\ jobs' = complete(jobs, currentJob)
  /\ hist' = [hist EXCEPT ![currentJob].out = Append(@, "ok")]
  /\ isProcessingJob' = FALSE
  /\ currentJob' = 0
  /\ UNCHANGED <<now, pollVars, libVars, isProcessing, jobHandlers, eeCalls, starts, counted>>

\* the handler throws: catch branch, finally
eeHandlerThrows ==
  /\ currentJob # 0
  /\ jobs' = eeCatch(jobs, currentJob, now)
  /\ hist' = eeCatchHist(hist, jobs, currentJob, "throw")
  /\ isProcessingJob' = FALSE
  /\ currentJob' = 0
  /\ UNCHANGED <<now, pollVars, libVars, isProcessing, jobHandlers, eeCalls, starts, counted>>

eeAdvanceTime(limit) ==
  /\ now < limit
  /\ now' = now + 1
  /\ starts' = IF Today(now + 1) # Today(now) THEN [h \in Handles |-> 0] ELSE starts
  /\ UNCHANGED <<jobs, pollVars, libVars, isProcessing, isProcessingJob, jobHandlers, currentJob, eeCalls, hist, counted>>

\* a rescheduled job waits for its nextAttempt; within one day this processor
\* reads the clock for nothing else
RetryWaiting ==
  \E j \in JobIds : jobs[j].status = "pending" /\ jobs[j].nextAttempt > now

\* midnight UTC, nothing stored
InitEE ==
  /\ jobs = << >>
  /\ now = DAY
  /\ PollIdle
  /\ EEIdle
  /\ counted = 0
  /\ LibIdle

NextEE ==
  \/ start
  \/ eeStop
  \/ eeRegisterHandler
  \/ \E h \in Handles, p \in Priorities : eeCreateJob(h, p, EEMaxJobs)
  \/ \E c \in BagToSet(eeCalls) : eeCreateJobSave(c)
  \/ eeProcessNextJob
  \/ eeHandlerReturns
  \/ eeHandlerThrows
  \/ /\ RetryWaiting
     /\ eeAdvanceTime(DAY + EEMaxAdvances)

SpecEE == InitEE /\ [][NextEE]_vars

\* ---------------------------------------------- quota check on a used store
\* The Job collection outlives the process and createJob reads refreshCount
\* and lastRefreshDate as stored. The store holds finished jobs of the last
\* seconds before midnight UTC: for the regular handle one refreshed once and a
\* later one with its counter just below or at the daily limit, for the
\* priority handle one with its counter just below or at the limit.
SeedJob(h, rc, t) ==
  [NewJob(h, storedPriority(h, 0), "completed", "", t) EXCEPT !.attempts = 1, !.refreshCount = rc]

SeedCounts == {DAILY_REFRESH_LIMIT - 1, DAILY_REFRESH_LIMIT}

QuotaJobs == EEMaxJobs + 3

InitQuota ==
  /\ \E rp \in SeedCounts, ra \in SeedCounts :
       jobs = << SeedJob("alice", 1, DAY - 2),
                 SeedJob(PRIORITY_HANDLE, rp, DAY - 1),
                 SeedJob("alice", ra, DAY - 1) >>
  /\ now = DAY - 1
  /\ PollIdle
  /\ isProcessing = FALSE
  /\ isProcessingJob = FALSE
  /\ jobHandlers = FALSE
  /\ currentJob = 0
  /\ eeCalls = EmptyBag
  /\ starts = [h \in Handles |-> 0]
  /\ hist = << NoHist, NoHist, NoHist >>
  /\ counted = 0
  /\ LibIdle

NextQuota ==
  \/ start
  \/ eeStop
  \/ eeRegisterHandler
  \/ \E h \in Handles, p \in Priorities : eeCreateJob(h, p, QuotaJobs)
  \/ \E c \in BagToSet(eeCalls) : eeCreateJobSave(c)
  \/ eeProcessNextJob
  \/ eeHandlerReturns
  \/ eeHandlerThrows
  \/ eeAdvanceTime(DAY - 1 + QuotaAdvances)

SpecQuota == InitQuota /\ [][NextQuota]_vars

\* ------------------------------------------------------- Job.findNextJob
\* findNextJob up to the answer of countDocuments({status: PROCESSING})
findNextJobCount ==
  /\ counted < MaxDequeuers
  /\ Cardinality({j \in JobIds : jobs[j].status = "processing"}) < MAX_CONCURRENT_JOBS
  /\ counted' = counted + 1
  /\ UNCHANGED <<jobs, now, pollVars, libVars, eeVars>>

\* the filter of the first findOneAndUpdate
priorityPending(js) ==
  {j \in DOMAIN js : js[j].status = "pending" /\ js[j].handle = PRIORITY_HANDLE}

\* the filter of the second findOneAndUpdate (refreshCount always exists: default 0)
regularPending(js, t) ==
  {j \in DOMAIN js :
     /\ js[j].status = "pending"
     /\ js[j].handle # PRIORITY_HANDLE
     /\ \/ js[j].lastRefreshDate >= Today(t) /\ js[j].refreshCount < DAILY_REFRESH_LIMIT
        \/ js[j].lastRefreshDate < Today(t)}

\* sort {createdAt: 1}
OldestFirst(js, E) ==
  {j \in E : \A k \in E \ {j} :
     \/ js[j].createdAt < js[k].createdAt
     \/ js[j].createdAt = js[k].createdAt /\ j < k}

findNextJobPick(js, t) ==
  IF priorityPending(js) # {} THEN OldestFirst(js, priorityPending(js))
  ELSE SortFirst(js, regularPending(js, t))

\* getJobUpdateQuery (startedAt is written too and not read here)
getJobUpdateQuery(js, j) ==
  [js EXCEPT ![j].status = "processing", ![j].attempts = @ + 1]

\* findNextJob: the findOneAndUpdate calls
findNextJobUpdate ==
  /\ counted > 0
  /\ counted' = counted - 1
  /\ LET pick == findNextJobPick(jobs, now) IN
     IF pick = {} THEN UNCHANGED jobs
     ELSE \E j \in pick : jobs' = getJobUpdateQuery(jobs, j)
  /\ UNCHANGED <<now, pollVars, libVars, eeVars>>

\* the claimed job is finished by its worker: job.complete()
capComplete(j) ==
  /\ jobs[j].status = "processing"
  /\ jobs' = complete(jobs, j)
  /\ UNCHANGED <<now, pollVars, libVars, eeVars, counted>>

NextCap ==
  \/ \E h \in Handles \ {PRIORITY_HANDLE} : eeCreateJob(h, 0, CapJobs)
  \/ \E c \in BagToSet(eeCalls) : eeCreateJobSave(c)
  \/ findNextJobCount
  \/ findNextJobUpdate
  \/ \E j \in JobIds : capComplete(j)

SpecCap == InitEE /\ [][NextCap]_vars

\* the EventEmitter processor and Job.findNextJob work on the same collection
NextDequeue ==
  \/ NextEE
  \/ findNextJobCount
  \/ findNextJobUpdate
  \/ \E j \in JobIds : capComplete(j)

SpecDequeue == InitEE /\ [][NextDequeue]_vars

Next ==
  \/ registerHandler
  \/ Tick
  \/ \E j \in JobIds : checkStuckJobs(j)
  \/ \E h \in Handles, p \in Priorities : createJob(h, p)
  \/ \E c \in BagToSet(calls) : createJobSave(c)
  \/ \E c \in BagToSet(calls) : createJobReset(c)
  \/ \E w \in BagToSet(workers) : processJob(w)
  \/ \E w \in BagToSet(workers) : handlerReset(w)
  \/ \E w \in BagToSet(workers) : handlerReturns(w)
  \/ \E w \in BagToSet(workers) : handlerThrows(w)
  \/ \E j \in timers : retryFires(j)
  \/ stop
  \/ AdvanceTime

Spec == Init /\ [][Next]_vars

\* the processor with a handler that may never return: the interval fires,
\* the awaits of checkStuckJobs and processJob and the first save of the
\* handler resolve, time passes; whether the handler returns is left open
NextSweep ==
  \/ registerHandler
  \/ Tick
  \/ \E j \in JobIds : checkStuckJobs(j)
  \/ \E h \in Handles, p \in Priorities : createJob(h, p)
  \/ \E c \in BagToSet(calls) : createJobSave(c)
  \/ \E w \in BagToSet(workers) : processJob(w)
  \/ \E w \in BagToSet(workers) : handlerReset(w)
  \/ \E w \in BagToSet(workers) : handlerReturns(w)
  \/ AdvanceTime

SpecSweep ==
  /\ Init
  /\ [][NextSweep]_vars
  /\ WF_vars(Tick)
  /\ WF_vars(\E j \in JobIds : checkStuckJobs(j))
  /\ WF_vars(\E w \in BagToSet(workers) : processJob(w))
  /\ WF_vars(\E w \in BagToSet(workers) : handlerReset(w))
  /\ WF_vars(AdvanceTime)

\* A job record left in_progress by an earlier run of the server that stopped
\* during the record's a-th attempt; the processor itself is newly constructed.
InitAttempts ==
  /\ \E h \in Handles, a \in 1..MAX_ATTEMPTS :
       jobs = <<[NewJob(h, 0, "in_progress", "", 0) EXCEPT !.attempts = a, !.startedAt = 0]>>
  /\ now = 0
  /\ PollIdle
  /\ EEIdle
  /\ counted = 0
  /\ LibIdle

NextAttempts ==
  \/ registerHandler
  \/ Tick
  \/ \E j \in JobIds : checkStuckJobs(j)
  \/ \E w \in BagToSet(workers) : processJob(w)
  \/ \E w \in BagToSet(workers) : handlerReset(w)
  \/ \E w \in BagToSet(workers) : handlerReturns(w)
  \/ \E w \in BagToSet(workers) : handlerThrows(w)
  \/ AdvanceTime

SpecAttempts == InitAttempts /\ [][NextAttempts]_vars


\* ------------------------------------------------------------ graphProcessor
\* Node ids in insertion order; a graph of n nodes holds the first n of them.
NodeOrder == <<"A", "B", "C", "D", "E">>
\* an id that is no node of the graph
Unknown == "X"
\* the central user of createGraph; "" stands for a missing (falsy) id
Central == "U"
Missing == ""
Ends == {NodeOrder[i] : i \in DOMAIN NodeOrder} \cup {Unknown, Central, Missing}
MAX_ITERATIONS == 10
CENTRAL_NODES == 3

RECURSIVE SumSeq(_), adjacencyMap(_, _), neighborCommunities(_, _, _), bestMove(_, _, _, _, _, _, _)
RECURSIVE visitNodes(_, _, _, _, _), moveLoop(_, _, _, _, _, _), finalCommunities(_, _, _, _)
RECURSIVE addWeighted(_, _, _), moveLoop_noBreak(_, _, _, _, _, _)
SumSeq(s) == IF Len(s) = 0 THEN 0 ELSE Head(s) + SumSeq(Tail(s))

Member(x, seq) == \E i \in 1..Len(seq) : seq[i] = x

\* Set.add / Map.set on an insertion-ordered collection
AddTo(seq, x) == IF Member(x, seq) THEN seq ELSE Append(seq, x)

\* EDGE_WEIGHTS[edge.type]
EDGE_WEIGHTS(type) == IF type = "mutual" THEN 2 ELSE 1

\* for (i < weight) set.add(x): the same id added weight times to one Set
addWeighted(set, x, weight) ==
  IF weight = 0 THEN set ELSE AddTo(addWeighted(set, x, weight - 1), x)

\* the adjacency map after the first n edges; a missing key reads as no neighbors
adjacencyMap(edges, n) ==
  IF n = 0 THEN [v \in Ends |-> << >>]
  ELSE LET a == adjacencyMap(edges, n - 1)
           e == edges[n]
           weight == EDGE_WEIGHTS(e.type)
           a1 == [a EXCEPT ![e.source] = addWeighted(@, e.target, weight)]
       IN [a1 EXCEPT ![e.target] = addWeighted(@, e.source, weight)]

\* the initial communities: node i (counted from 0) alone in community-i
singletons(nodes) ==
  [i \in 1..Len(nodes) |-> [members |-> <<nodes[i]>>, size |-> 1]]

\* nodeMap: node id -> index of its community (1-based here), 0 for an unknown id
initialNodeMap(nodes) ==
  [v \in Ends |-> IF Member(v, nodes) THEN CHOOSE i \in 1..Len(nodes) : nodes[i] = v ELSE 0]

\* calculateModularity, times (2 * totalEdges)^2
communityModularity(members, adj, E) ==
  LET n == Len(members) IN
  SumSeq([k \in 1..(n * n) |->
    LET i == members[((k - 1) \div n) + 1]
        j == members[((k - 1) % n) + 1]
    IN IF i = j THEN 0
       ELSE 2 * E * (IF Member(j, adj[i]) THEN 1 ELSE 0) - Len(adj[i]) * Len(adj[j])])

calculateModularity(comms, adj, E) ==
  SumSeq([c \in 1..Len(comms) |-> communityModularity(comms[c].members, adj, E)])

\* calculateModularityGain, times 4 * totalEdges^3
calculateModularityGain(node, fromCommunity, toCommunity, comms, nodeMap, adj, E) ==
  LET nb == adj[node]
      connectionsTo == Cardinality({i \in 1..Len(nb) : nodeMap[nb[i]] = toCommunity})
      connectionsFrom == Cardinality({i \in 1..Len(nb) : nodeMap[nb[i]] = fromCommunity})
      fromSize == comms[fromCommunity].size - 1
      toSize == comms[toCommunity].size + 1
  IN 4 * E * E * connectionsTo - connectionsFrom * fromSize * toSize

\* the keys of neighborCommunities in insertion order, after n neighbors
neighborCommunities(nb, nodeMap, n) ==
  IF n = 0 THEN << >>
  ELSE LET r == neighborCommunities(nb, nodeMap, n - 1)
           c == nodeMap[nb[n]]
       IN IF c = 0 THEN r ELSE AddTo(r, c)

\* bestCommunity and maxGain after the first n candidate communities
bestMove(cands, n, node, cur, st, adj, E) ==
  IF n = 0 THEN [best |-> cur, maxGain |-> 0, gains |-> << >>]
  ELSE LET r == bestMove(cands, n - 1, node, cur, st, adj, E)
           c == cands[n]
       IN IF c = cur THEN r
          ELSE LET gain == calculateModularityGain(node, cur, c, st.comms, st.nodeMap, adj, E)
                   seen == Append(r.gains, [community |-> c, gain |-> gain])
               IN IF gain > r.maxGain THEN [best |-> c, maxGain |-> gain, gains |-> seen]
                  ELSE [r EXCEPT !.gains = seen]

\* a move that leaves the node in the community it came from
visitNode_noLeave(st, node, adj, E) ==
  LET cur == st.nodeMap[node]
      cands == neighborCommunities(adj[node], st.nodeMap, Len(adj[node]))
      b == bestMove(cands, Len(cands), node, cur, st, adj, E)
      visit(to) == [node |-> node, from |-> cur, to |-> to, gains |-> b.gains]
  IN IF b.best # cur /\ b.maxGain > 0
     THEN LET joined == Append(st.comms[b.best].members, node)
          IN [st EXCEPT !.comms = [st.comms EXCEPT ![b.best] = [members |-> joined, size |-> Len(joined)]],
                        !.nodeMap = [st.nodeMap EXCEPT ![node] = b.best],
                        !.changed = TRUE,
                        !.visits = Append(@, visit(b.best))]
     ELSE [st EXCEPT !.visits = Append(@, visit(cur))]

\* the body of graph.nodes.forEach in the move loop, for one node; the visit
\* is logged with the gain computed for each candidate community
visitNode(st, node, adj, E) ==
  LET cur == st.nodeMap[node]
      cands == neighborCommunities(adj[node], st.nodeMap, Len(adj[node]))
      b == bestMove(cands, Len(cands), node, cur, st, adj, E)
      keep(id) == id # node
      visit(to) == [node |-> node, from |-> cur, to |-> to, gains |-> b.gains]
  IN IF b.best # cur /\ b.maxGain > 0
     THEN LET left == SelectSeq(st.comms[cur].members, keep)
              c1 == [st.comms EXCEPT ![cur] = [members |-> left, size |-> Len(left)]]
              joined == Append(c1[b.best].members, node)
          IN [st EXCEPT !.comms = [c1 EXCEPT ![b.best] = [members |-> joined, size |-> Len(joined)]],
                        !.nodeMap = [st.nodeMap EXCEPT ![node] = b.best],
                        !.changed = TRUE,
                        !.visits = Append(@, visit(b.best))]
     ELSE [st EXCEPT !.visits = Append(@, visit(cur))]

\* one pass over the first n nodes
visitNodes(st, nodes, n, adj, E) ==
  IF n = 0 THEN st
  ELSE visitNode(visitNodes(st, nodes, n - 1, adj, E), nodes[n], adj, E)

\* what a pass leaves in the log: whether it moved a node, the modularity
\* computed after it, and bestModularity as it stood before it
passed(st, newModularity, bestModularity) ==
  [st EXCEPT !.passes = Append(@, [changed |-> st.changed,
                                   newModularity |-> newModularity,
                                   bestModularity |-> bestModularity])]

\* a loop that goes on after a pass that did not improve the modularity
moveLoop_noBreak(st, iterations, bestModularity, nodes, adj, E) ==
  IF ~st.changed \/ iterations >= MAX_ITERATIONS THEN st
  ELSE LET after == visitNodes([st EXCEPT !.changed = FALSE], nodes, Len(nodes), adj, E)
           newModularity == calculateModularity(after.comms, adj, E)
       IN moveLoop_noBreak(passed(after, newModularity, bestModularity), iterations + 1,
                           IF newModularity > bestModularity THEN newModularity ELSE bestModularity,
                           nodes, adj, E)

\* while (changed && iterations < MAX_ITERATIONS), with its break
moveLoop(st, iterations, bestModularity, nodes, adj, E) ==
  IF ~st.changed \/ iterations >= MAX_ITERATIONS THEN st
  ELSE LET after == visitNodes([st EXCEPT !.changed = FALSE], nodes, Len(nodes), adj, E)
           newModularity == calculateModularity(after.comms, adj, E)
           logged == passed(after, newModularity, bestModularity)
       IN IF newModularity <= bestModularity THEN logged
          ELSE moveLoop(logged, iterations + 1, newModularity, nodes, adj, E)

\* neighbors of node m that are members
Inside(members, adj, m) ==
  Cardinality({i \in 1..Len(adj[m]) : Member(adj[m][i], members)})

\* the first three members, unsorted
centralNodes_memberOrder(members, adj) ==
  SubSeq(members, 1, IF Len(members) < CENTRAL_NODES THEN Len(members) ELSE CENTRAL_NODES)

\* sort by degree inside the community, descending and stable; the first three
centralNodes(members, adj) ==
  LET n == Len(members)
      before(i, j) == \/ Inside(members, adj, members[i]) > Inside(members, adj, members[j])
                      \/ /\ Inside(members, adj, members[i]) = Inside(members, adj, members[j])
                         /\ i < j
      rank(i) == 1 + Cardinality({j \in 1..n : before(j, i)})
      top == IF n < CENTRAL_NODES THEN n ELSE CENTRAL_NODES
  IN [r \in 1..top |-> members[CHOOSE i \in 1..n : rank(i) = r]]

\* the map over the non-empty communities: metrics and central nodes.
\* density and cohesion are kept as <<numerator, denominator>>, both doubled
finalCommunity(c, index, g, adj) ==
  LET possible2 == c.size * (c.size - 1)
      actual2 == SumSeq([i \in 1..Len(c.members) |-> Inside(c.members, adj, c.members[i])])
      mutual == Cardinality({e \in 1..Len(g.edges) :
                  /\ g.edges[e].type = "mutual"
                  /\ Member(g.edges[e].source, c.members)
                  /\ Member(g.edges[e].target, c.members)})
  IN [id |-> index - 1,
      size |-> c.size,
      members |-> c.members,
      density |-> IF possible2 > 0 THEN <<actual2, possible2>> ELSE <<0, 1>>,
      cohesion |-> IF actual2 > 0 THEN <<2 * mutual, actual2>> ELSE <<0, 1>>,
      centralNodes |-> centralNodes(c.members, adj)]

\* filter(size > 0) and map, over the first n communities
finalCommunities(comms, n, g, adj) ==
  IF n = 0 THEN << >>
  ELSE LET r == finalCommunities(comms, n - 1, g, adj) IN
       IF comms[n].size > 0 THEN Append(r, finalCommunity(comms[n], n, g, adj)) ELSE r

noCommunities_nodesOnly(g) == Len(g.nodes) = 0

\* the guard: !graph?.nodes?.length || !graph?.edges?.length
noCommunities(g) == Len(g.nodes) = 0 \/ Len(g.edges) = 0

\* the call: what it returns, and the log of its loop
detectRun(g) ==
  IF noCommunities(g) THEN [communities |-> << >>, log |-> [initial |-> 0, visits |-> << >>, passes |-> << >>]]
  ELSE LET adj == adjacencyMap(g.edges, Len(g.edges))
           E == Len(g.edges)
           st0 == [comms |-> singletons(g.nodes), nodeMap |-> initialNodeMap(g.nodes), changed |-> TRUE,
                   visits |-> << >>, passes |-> << >>]
           bestModularity == calculateModularity(st0.comms, adj, E)
           st == moveLoop(st0, 0, bestModularity, g.nodes, adj, E)
       IN [communities |-> finalCommunities(st.comms, Len(st.comms), g, adj),
           log |-> [initial |-> bestModularity, visits |-> st.visits, passes |-> st.passes]]

detectCommunities(g) == detectRun(g).communities

graphAfterDetect_reversed(g) ==
  [g EXCEPT !.nodes = [i \in 1..Len(g.nodes) |-> g.nodes[Len(g.nodes) + 1 - i]]]

\* detectCommunities reads graph.nodes and graph.edges (forEach, filter, length)
\* and assigns to neither
graphAfterDetect(g) == g

\* a call of detectCommunities on the current graph
detect ==
  /\ Len(runs) < MaxRuns
  /\ \E run \in {detectRun(graph)} :
     /\ runs' = Append(runs, run.communities)
     /\ trace' = Append(trace, run.log)
  /\ graph' = graphAfterDetect(graph)
  /\ UNCHANGED <<cgArgs, now, jobVars, svcVars, mutVars, rlVars, rqVars, api>>

\* inputs: the first n ids as nodes and up to MaxEdges mutual edges, in any
\* order, between nodes, from a node to itself, or with one end that is no node.
\* adjacencyMap adds each end of an edge to the other end's set, so an edge and
\* its reverse build the same map: edges are drawn in one direction only.
Edge(s, t) == [source |-> s, target |-> t, type |-> "mutual"]
Follows(s, t) == [source |-> s, target |-> t, type |-> "follows"]
SeqsUpTo(S, k) == UNION {[1..m -> S] : m \in 0..k}
NodesOf(n) == SubSeq(NodeOrder, 1, n)
EndsOf(n) == <<Unknown>> \o NodesOf(n)
OneWay(n) ==
  {Edge(EndsOf(n)[p[1]], EndsOf(n)[p[2]]) :
     p \in {q \in (1..(n + 1)) \X (1..(n + 1)) : q[1] <= q[2] /\ q[2] > 1}}
Graphs(maxNodes, maxEdges) ==
  UNION {{[nodes |-> NodesOf(n), edges |-> es] : es \in SeqsUpTo(OneWay(n), maxEdges)} :
         n \in 0..maxNodes}

\* four nodes, a triangle A B C and the pendant D on A
TriangleWithPendant ==
  [nodes |-> <<"A", "B", "C", "D">>,
   edges |-> <<Edge("A", "B"), Edge("A", "C"), Edge("B", "C"), Edge("A", "D")>>]

\* the path C - A - B - D
PathOfFour ==
  [nodes |-> <<"A", "B", "C", "D">>,
   edges |-> <<Edge("A", "B"), Edge("A", "C"), Edge("B", "D")>>]

\* graphs of both edge types between nodes: each pair of the first n nodes
\* joined by no edge, a follows edge, a mutual edge, or one of each
Typed(n) ==
  LET pairs == {p \in (1..n) \X (1..n) : p[1] < p[2]}
      ofPair(p) == {<<Follows(NodeOrder[p[1]], NodeOrder[p[2]])>>,
                    <<Edge(NodeOrder[p[1]], NodeOrder[p[2]])>>,
                    <<Follows(NodeOrder[p[1]], NodeOrder[p[2]]), Edge(NodeOrder[p[2]], NodeOrder[p[1]])>>}
  IN {[nodes |-> NodesOf(n), edges |-> es] :
        es \in UNION {{a \o b : a \in ofPair(pq[1]), b \in {<< >>} \cup ofPair(pq[2])} :
                        pq \in {x \in pairs \X pairs : x[1] # x[2]}}}

InitGraph ==
  /\ graph \in Graphs(MaxNodes, MaxEdges) \cup Typed(MaxNodes) \cup {TriangleWithPendant, PathOfFour}
  /\ runs = << >>
  /\ cgArgs = << >>
  /\ trace = << >>
  /\ MutIdle /\ RlIdle /\ RqIdle /\ ApiIdle /\ SvcIdle
  /\ jobs = << >>
  /\ now = 0
  /\ PollIdle
  /\ EEIdle
  /\ counted = 0

NextGraph == detect

SpecGraph == InitGraph /\ [][NextGraph]_vars


\* ------------------------------------------------------------ createGraph
RECURSIVE addNodes(_, _, _)
has_any(nodes, id) == TRUE

\* nodes.has(id)
has(nodes, id) == Member(id, nodes)

addNodes_noHas(nodes, mutuals, n) == nodes \o [i \in 1..n |-> mutuals[i].connectionId]

\* the node ids after addNode for the first n records of mutuals
addNodes(nodes, mutuals, n) ==
  IF n = 0 THEN nodes
  ELSE LET r == addNodes(nodes, mutuals, n - 1)
           id == mutuals[n].connectionId
       IN IF id = Missing THEN r ELSE AddTo(r, id)

\* the second mutuals.forEach: one edge from the central user per record
mutualEdges(userId, nodes, mutuals) ==
  LET known(m) == m.connectionId # Missing /\ has(nodes, m.connectionId)
      kept == SelectSeq(mutuals, known)
  IN [i \in 1..Len(kept) |-> Edge(userId, kept[i].connectionId)]

\* additionalEdges.forEach: both ends present and both ends nodes
extraEdges(nodes, additionalEdges) ==
  LET ok(e) == /\ e.source # Missing /\ e.target # Missing
               /\ has(nodes, e.source) /\ has(nodes, e.target)
      kept == SelectSeq(additionalEdges, ok)
  IN [i \in 1..Len(kept) |-> Edge(kept[i].source, kept[i].target)]

\* followers and following are only counted for the log line
createGraph(userId, mutuals, additionalEdges) ==
  LET nodes == addNodes(<<userId>>, mutuals, Len(mutuals))
      edges == mutualEdges(userId, nodes, mutuals) \o extraEdges(nodes, additionalEdges)
      valid(e) == /\ e.source # Missing /\ e.target # Missing
                  /\ has(nodes, e.source) /\ has(nodes, e.target)
  IN [nodes |-> nodes, edges |-> SelectSeq(edges, valid)]

UserIds == {Central, Missing}
ConnectionIds == {Missing, "A", "B", Central}
MutualRecords == {[connectionId |-> c] : c \in ConnectionIds}
ExtraEnds == {Missing, "A", "B", Unknown}
ExtraEdges == {[source |-> a, target |-> b] : a \in ExtraEnds, b \in ExtraEnds}

\* a call createGraph(userId, followers, following, mutuals, additionalEdges)
createGraphCall ==
  /\ cgArgs = << >>
  /\ \E userId \in UserIds, mutuals \in SeqsUpTo(MutualRecords, MaxMutuals),
        additionalEdges \in SeqsUpTo(ExtraEdges, MaxExtra) :
       /\ cgArgs' = <<[userId |-> userId, mutuals |-> mutuals, additionalEdges |-> additionalEdges]>>
       /\ graph' = createGraph(userId, mutuals, additionalEdges)
  /\ UNCHANGED <<runs, trace, now, jobVars, svcVars, mutVars, rlVars, rqVars, api>>

InitBuild ==
  /\ LibIdle
  /\ jobs = << >>
  /\ now = 0
  /\ PollIdle
  /\ EEIdle
  /\ counted = 0

NextBuild == createGraphCall

SpecBuild == InitBuild /\ [][NextBuild]_vars

\* processJob, step 5: createGraph(profile.did, [], [], prepareConnectionData(mutuals),
\* network.edges), where network.edges are the edges from the user to the
\* accounts buildCompleteNetwork verified as mutual
pipelineGraph ==
  /\ cgArgs = << >>
  /\ \E mutuals \in SeqsUpTo({[connectionId |-> c] : c \in {"A", "B"}}, MaxMutuals),
        verified \in SeqsUpTo({"A", "B", Unknown}, MaxExtra) :
       LET edges == [i \in 1..Len(verified) |-> [source |-> Central, target |-> verified[i]]]
       IN /\ cgArgs' = <<[userId |-> Central, mutuals |-> mutuals, additionalEdges |-> edges]>>
          /\ graph' = createGraph(Central, mutuals, edges)
  /\ UNCHANGED <<runs, trace, now, jobVars, svcVars, mutVars, rlVars, rqVars, api>>

\* processJob, step 6: detectCommunities on the graph just created
detectOnCreated ==
  /\ cgArgs # << >>
  /\ detect

NextMetrics == createGraphCall \/ pipelineGraph \/ detectOnCreated

SpecMetrics == InitBuild /\ [][NextMetrics]_vars

\* ------------------------------------------------------------ findMutualConnections
HandleNames == {"h1", "h2"}
Followers == {[did |-> d, handle |-> h] : d \in Dids, h \in HandleNames}

findMutualConnections_byHandle(F, G) ==
  LET some(follower) == \E i \in 1..Len(G) : G[i].handle = follower.handle
  IN SelectSeq(F, some)

\* followers.filter(follower => following.some(follow => follow.did === follower.did))
findMutualConnections(F, G) ==
  LET some(follower) == \E i \in 1..Len(G) : G[i].did = follower.did
  IN SelectSeq(F, some)

\* a call on the current lists
findMutuals ==
  /\ mutualList' = <<findMutualConnections(followers, following)>>
  /\ UNCHANGED <<followers, following, mutualCheck, now, jobVars, svcVars, graphVars, rlVars, rqVars, api>>

Swap(seq, i) == [seq EXCEPT ![i] = seq[i + 1], ![i + 1] = seq[i]]

\* the caller hands over the same accounts in another order
reorder ==
  /\ \/ \E i \in 1..(Len(followers) - 1) :
          /\ followers' = Swap(followers, i)
          /\ UNCHANGED following
     \/ \E i \in 1..(Len(following) - 1) :
          /\ following' = Swap(following, i)
          /\ UNCHANGED followers
  /\ UNCHANGED <<mutualList, mutualCheck, now, jobVars, svcVars, graphVars, rlVars, rqVars, api>>

InitMutuals ==
  /\ followers \in SeqsUpTo(Followers, MaxList)
  /\ following \in SeqsUpTo(Followers, MaxList)
  /\ mutualList = << >>
  /\ mutualCheck = [pc |-> "idle"]
  /\ GraphIdle /\ RlIdle /\ RqIdle /\ ApiIdle /\ SvcIdle
  /\ jobs = << >>
  /\ now = 0
  /\ PollIdle
  /\ EEIdle
  /\ counted = 0

NextMutuals == findMutuals \/ reorder

SpecMutuals == InitMutuals /\ [][NextMutuals]_vars

\* -------------------------------------------------- areMutuallyConnected
\* handles that occur as arguments and in the following lists
CheckUsers == Handles \cup {"bob"}

\* list.some(f => f.handle === user), the list given by the handles of its entries
follows(list, user) == \E f \in list : f = user

earlyReturn_never(user1FollowsUser2) == FALSE

\* if (!user1FollowsUser2) return false
earlyReturn(user1FollowsUser2) == ~user1FollowsUser2

\* a caller invokes areMutuallyConnected(user1, user2): the first getFollowing is queued
areMutuallyConnected(user1, user2) ==
  /\ mutualCheck.pc = "idle"
  /\ mutualCheck' = [pc |-> "first", user1 |-> user1, user2 |-> user2,
                     user1Following |-> << >>, user2Following |-> << >>,
                     failed |-> FALSE, result |-> << >>]
  /\ UNCHANGED <<followers, following, mutualList, now, jobVars, svcVars, graphVars, rlVars, rqVars, api>>

\* getFollowing(user1) resolves with a list
firstFetched(list) ==
  /\ mutualCheck.pc = "first"
  /\ mutualCheck' =
       IF earlyReturn(follows(list, mutualCheck.user2))
       THEN [mutualCheck EXCEPT !.pc = "returned", !.user1Following = <<list>>,
                                !.result = <<FALSE>>]
       ELSE [mutualCheck EXCEPT !.pc = "second", !.user1Following = <<list>>]
  /\ UNCHANGED <<followers, following, mutualList, now, jobVars, svcVars, graphVars, rlVars, rqVars, api>>

\* getFollowing(user2) resolves with a list: isMutual is returned
secondFetched(list) ==
  /\ mutualCheck.pc = "second"
  /\ LET user1FollowsUser2 == follows(mutualCheck.user1Following[1], mutualCheck.user2)
         user2FollowsUser1 == follows(list, mutualCheck.user1)
     IN mutualCheck' = [mutualCheck EXCEPT !.pc = "returned", !.user2Following = <<list>>,
                                           !.result = <<user1FollowsUser2 /\ user2FollowsUser1>>]
  /\ UNCHANGED <<followers, following, mutualList, now, jobVars, svcVars, graphVars, rlVars, rqVars, api>>

\* a queued getFollowing rejects: the catch block returns false
fetchRejects ==
  /\ mutualCheck.pc \in {"first", "second"}
  /\ mutualCheck' = [mutualCheck EXCEPT !.pc = "returned", !.failed = TRUE, !.result = <<FALSE>>]
  /\ UNCHANGED <<followers, following, mutualList, now, jobVars, svcVars, graphVars, rlVars, rqVars, api>>

NextCheck ==
  \/ \E user1, user2 \in CheckUsers : areMutuallyConnected(user1, user2)
  \/ \E list \in SUBSET CheckUsers : firstFetched(list)
  \/ \E list \in SUBSET CheckUsers : secondFetched(list)
  \/ fetchRejects

\* no call made yet
InitCheck ==
  /\ LibIdle
  /\ jobs = << >>
  /\ now = 0
  /\ PollIdle
  /\ EEIdle
  /\ counted = 0

SpecCheck == InitCheck /\ [][NextCheck]_vars

\* ------------------------------------------------------------ RateLimiter
\* The limiter is constructed with a config. The service passes RATE_LIMIT
\* (80 requests per 300000 ms, 2000 ms between requests, jitter below 1000 ms);
\* here it is constructed with the same shape in small numbers, one unit of time
\* standing for minWaitTime / 2.
maxRequests == 2
timeWindow == 6
minWaitTime == 2
jitterMax == 1

\* Date.now() when the limiter is constructed: far from the initial lastRequestTime
RlStart == timeWindow

\* requestQueue.filter(timestamp => now - timestamp < timeWindow)
inWindow(queue, t) ==
  LET recent(timestamp) == t - timestamp < timeWindow IN SelectSeq(queue, recent)

\* baseDelay with consecutiveErrors = 0: min(maxBackoffTime, minWaitTime)
baseDelay == minWaitTime

\* checkRateLimit from its first line to its first await or its return, entered
\* at time now with the given forceDelay; rest holds the other calls in flight
enterCheck(rest, forceDelay, jitter) ==
  LET queue == inWindow(requestQueue, now)
      timeSinceLastRequest == now - lastRequestTime
  IN IF forceDelay \/ Len(queue) >= maxRequests
     THEN /\ requestQueue' = queue
          /\ rlCalls' = Put(rest, [pc |-> "backoff", t |-> now, wake |-> now + baseDelay + jitter])
          /\ UNCHANGED <<lastRequestTime, admitted>>
     ELSE IF timeSinceLastRequest < minWaitTime
     THEN /\ requestQueue' = queue
          /\ rlCalls' = Put(rest, [pc |-> "spacing", t |-> now,
                                   wake |-> now + minWaitTime - timeSinceLastRequest + jitter])
          /\ UNCHANGED <<lastRequestTime, admitted>>
     ELSE /\ requestQueue' = Append(queue, now)
          /\ lastRequestTime' = now
          /\ admitted' = Append(admitted, [stamp |-> now, at |-> now])
          /\ rlCalls' = rest

\* a caller invokes checkRateLimit(forceDelay)
checkRateLimit ==
  /\ Len(admitted) + BagCardinality(rlCalls) < MaxRlCalls
  /\ \E forceDelay \in BOOLEAN, jitter \in 0..jitterMax : enterCheck(rlCalls, forceDelay, jitter)
  /\ UNCHANGED <<now, jobVars, svcVars, graphVars, mutVars, rqVars, api>>

\* the timer of line 38 fired: return this.checkRateLimit(false)
rlRecheck ==
  /\ \E c \in BagToSet(rlCalls) :
       /\ c.pc = "backoff"
       /\ c.wake <= now
       /\ \E jitter \in 0..jitterMax : enterCheck(Take(rlCalls, c), FALSE, jitter)
  /\ UNCHANGED <<now, jobVars, svcVars, graphVars, mutVars, rqVars, api>>

\* the timer of line 46 fired: push the now read at line 19 and return
rlAdmit ==
  /\ \E c \in BagToSet(rlCalls) :
       /\ c.pc = "spacing"
       /\ c.wake <= now
       /\ requestQueue' = Append(requestQueue, c.t)
       /\ lastRequestTime' = c.t
       /\ admitted' = Append(admitted, [stamp |-> c.t, at |-> now])
       /\ rlCalls' = Take(rlCalls, c)
  /\ UNCHANGED <<now, jobVars, svcVars, graphVars, mutVars, rqVars, api>>

\* time passes
rlTick ==
  /\ now < RlStart + MaxRlTime
  /\ now' = now + 1
  /\ UNCHANGED <<jobVars, libVars>>

InitRate ==
  /\ LibIdle
  /\ jobs = << >>
  /\ now = RlStart
  /\ PollIdle
  /\ EEIdle
  /\ counted = 0

NextRate == checkRateLimit \/ rlRecheck \/ rlAdmit \/ rlTick

SpecRate == InitRate /\ [][NextRate]_vars

\* ------------------------------------------------------------ RequestQueue
maxConcurrentRequests == 2
minRequestDelay == 2000
\* the clock is read in steps of half the delay
RqStep == minRequestDelay \div 2
\* Date.now() when the queue is created: far from the initial lastRequestTime
RqStart == minRequestDelay

RqIds == 1..Len(rqCalls)
\* r => !r.completed
notCompleted(ids) == {r \in ids : rqCalls[r].pc # "settled"}

\* request() is called: lines 53-61
startRequest(c, cs, queue) ==
  /\ rqCalls' = [cs EXCEPT ![c] = [pc |-> "running", on |-> {}, wake |-> 0]]
  /\ rqQueue' = queue \cup {c}
  /\ dispatched' = Append(dispatched, now)

\* lines 38-50 for call c with the queue as filtered: wait for a slot, wait for
\* the spacing, or go on to the request
waitOrStart(c, cs, queue) ==
  IF Cardinality(notCompleted(queue)) >= maxConcurrentRequests
  THEN /\ rqCalls' = [cs EXCEPT ![c] = [pc |-> "race", on |-> queue, wake |-> 0]]
       /\ rqQueue' = queue
       /\ UNCHANGED dispatched
  ELSE LET timeSinceLastRequest == now - rqLast IN
       IF timeSinceLastRequest < minRequestDelay
       THEN /\ rqCalls' = [cs EXCEPT ![c] =
                             [pc |-> "sleep", on |-> {}, wake |-> now + minRequestDelay - timeSinceLastRequest]]
            /\ rqQueue' = queue
            /\ UNCHANGED dispatched
       ELSE startRequest(c, cs, queue)

\* a caller invokes queueRequest(request)
queueRequest ==
  /\ Len(rqCalls) < MaxRqCalls
  /\ LET c == Len(rqCalls) + 1
     IN waitOrStart(c, Append(rqCalls, [pc |-> "new", on |-> {}, wake |-> 0]), notCompleted(rqQueue))
  /\ UNCHANGED <<rqLast, now, jobVars, svcVars, graphVars, mutVars, rlVars, api>>

\* Promise.race of line 39 resolved: one of the raced requests has settled
rqRaceOver ==
  /\ \E c \in RqIds :
       /\ rqCalls[c].pc = "race"
       /\ \E r \in rqCalls[c].on : rqCalls[r].pc = "settled"
       /\ waitOrStart(c, rqCalls, notCompleted(rqQueue))
  /\ UNCHANGED <<rqLast, now, jobVars, svcVars, graphVars, mutVars, rlVars, api>>

\* the timer of line 47 fired
rqWake ==
  /\ \E c \in RqIds :
       /\ rqCalls[c].pc = "sleep"
       /\ rqCalls[c].wake <= now
       /\ startRequest(c, rqCalls, rqQueue)
  /\ UNCHANGED <<rqLast, now, jobVars, svcVars, graphVars, mutVars, rlVars, api>>

\* a request settles: the finally callback of lines 54-57
rqSettle ==
  /\ \E c \in RqIds :
       /\ rqCalls[c].pc = "running"
       /\ rqCalls' = [rqCalls EXCEPT ![c].pc = "settled"]
  /\ rqLast' = now
  /\ UNCHANGED <<rqQueue, dispatched, now, jobVars, svcVars, graphVars, mutVars, rlVars, api>>

\* time passes
rqTick ==
  /\ now < RqStart + MaxRqTicks * RqStep
  /\ now' = now + RqStep
  /\ UNCHANGED <<jobVars, libVars>>

InitQueue ==
  /\ LibIdle
  /\ jobs = << >>
  /\ now = RqStart
  /\ PollIdle
  /\ EEIdle
  /\ counted = 0

NextQueue == queueRequest \/ rqRaceOver \/ rqWake \/ rqSettle \/ rqTick

SpecQueue == InitQueue /\ [][NextQueue]_vars

\* ------------------------------------------------------------ apiRequest
RateLimitExceeded == "Rate limit exceeded and out of retries"
AuthRateLimited == "Rate limited during authentication"
AuthFailed == "Authentication failed"
RequestFailed == "API request failed"
AuthErrors == {AuthRateLimited, AuthFailed}
\* what the provider answers: a success, a 429, another status, or no answer
Responses == {"ok", "429", "error", "throw"}

retriesLeft_same(retries) == retries

\* RATE_LIMIT.maxBackoffTime in seconds and RATE_LIMIT.backoffFactor = 1.5 as a fraction
maxBackoffTime == 60
backoffFactor == <<3, 2>>
\* the Retry-After header of a 429 answer: absent, or a number of seconds
RetryAfters == {<< >>, <<0>>, <<3>>}

RECURSIVE Pow(_, _)
Pow(b, n) == IF n <= 0 THEN 1 ELSE b * Pow(b, n - 1)

\* Math.min(maxBackoffTime, minWaitTime * Math.pow(backoffFactor, n)) in milliseconds,
\* as a fraction <<numerator, denominator>>
backoffTime(n) ==
  LET num == 1000 * minWaitTime * Pow(backoffFactor[1], n)
      den == Pow(backoffFactor[2], n)
  IN IF num <= 1000 * maxBackoffTime * den THEN <<num, den>> ELSE <<1000 * maxBackoffTime, 1>>

\* RateLimiter.handleRateLimitError: this.consecutiveErrors++ comes first, then
\* retryAfter ? parseInt(retryAfter) * 1000 : the backoff time of the new count
handleRateLimitError(consecutiveErrors, retryAfter) ==
  LET count == consecutiveErrors + 1 IN
  [consecutiveErrors |-> count,
   wait |-> IF retryAfter # << >> THEN <<retryAfter[1] * 1000, 1>> ELSE backoffTime(count)]

\* the retries argument of the recursive call
retriesLeft(retries) == retries - 1

\* lines 96-100 of one apiRequest level: authenticate first unless the service
\* holds a session, then ask the rate limiter
enterRequest(a) ==
  IF ~a.initialized THEN [a EXCEPT !.pc = "init_limit"] ELSE [a EXCEPT !.pc = "limit"]

\* a caller invokes apiRequest(endpoint, params, retries)
apiRequest ==
  /\ api.pc = "idle"
  /\ \E retries \in 0..MaxRetries, initialized \in BOOLEAN :
       api' = enterRequest([pc |-> "idle", retries |-> retries, r0 |-> retries,
                            initialized |-> initialized, calls |-> 0, auths |-> 0,
                            responses |-> << >>, consecutiveErrors |-> 0,
                            handled |-> << >>,
                            lost |-> 0, error |-> ""])
  /\ UNCHANGED <<now, jobVars, svcVars, graphVars, mutVars, rlVars, rqVars>>

\* initialize: checkRateLimit(true) returned, the createSession request is sent
apiAuthFetch ==
  /\ api.pc = "init_limit"
  /\ api' = [api EXCEPT !.pc = "auth", !.auths = @ + 1]
  /\ UNCHANGED <<now, jobVars, svcVars, graphVars, mutVars, rlVars, rqVars>>

\* initialize: the createSession request is answered
apiAuthResponse ==
  /\ api.pc = "auth"
  /\ \E response \in Responses :
       api' = CASE response = "ok" ->
                     [api EXCEPT !.pc = "limit", !.initialized = TRUE, !.consecutiveErrors = 0]
                [] response = "429" -> [api EXCEPT !.pc = "auth_wait"]
                [] OTHER -> [api EXCEPT !.pc = "failed", !.initialized = FALSE, !.error = AuthFailed]
  /\ UNCHANGED <<now, jobVars, svcVars, graphVars, mutVars, rlVars, rqVars>>

\* initialize: the wait after a 429 is over, the error leaves initialize and apiRequest
apiAuthThrow ==
  /\ api.pc = "auth_wait"
  /\ api' = [api EXCEPT !.pc = "failed", !.initialized = FALSE, !.error = AuthRateLimited]
  /\ UNCHANGED <<now, jobVars, svcVars, graphVars, mutVars, rlVars, rqVars>>

\* checkRateLimit() returned, the request to the endpoint is sent
apiFetch ==
  /\ api.pc = "limit"
  /\ api' = [api EXCEPT !.pc = "fetch", !.calls = @ + 1]
  /\ UNCHANGED <<now, jobVars, svcVars, graphVars, mutVars, rlVars, rqVars>>

\* the request to the endpoint is answered: lines 117-145
apiResponse ==
  /\ api.pc = "fetch"
  /\ \E response \in Responses, retryAfter \in RetryAfters :
       \* only a 429 answer is handed over with its headers; a caught Error has none
       /\ response # "429" => retryAfter = << >>
       /\ LET a == [api EXCEPT !.responses = Append(@, response)]
              h == handleRateLimitError(api.consecutiveErrors, retryAfter) IN
          api' = IF response = "ok"
                 THEN [a EXCEPT !.pc = "returned", !.consecutiveErrors = 0]
                 ELSE IF a.retries > 0
                 THEN [a EXCEPT !.pc = "backoff", !.consecutiveErrors = h.consecutiveErrors,
                                !.handled = <<[c |-> api.consecutiveErrors,
                                               retryAfter |-> retryAfter, wait |-> h.wait]>>]
                 ELSE [a EXCEPT !.pc = "failed",
                                !.error = IF response = "429" THEN RateLimitExceeded ELSE RequestFailed]
  /\ UNCHANGED <<now, jobVars, svcVars, graphVars, mutVars, rlVars, rqVars>>

\* the wait before a retry is over: return this.apiRequest(endpoint, params, retries - 1)
apiRetry ==
  /\ api.pc = "backoff"
  /\ api' = enterRequest([api EXCEPT !.retries = retriesLeft(@)])
  /\ UNCHANGED <<now, jobVars, svcVars, graphVars, mutVars, rlVars, rqVars>>

\* another request's initialize failed meanwhile and cleared the session (lines 81-83)
sessionLost ==
  /\ api.pc \in {"limit", "fetch", "backoff"}
  /\ api.initialized
  /\ api.lost < MaxLost
  /\ api' = [api EXCEPT !.initialized = FALSE, !.lost = @ + 1]
  /\ UNCHANGED <<now, jobVars, svcVars, graphVars, mutVars, rlVars, rqVars>>

InitApi ==
  /\ LibIdle
  /\ jobs = << >>
  /\ now = 0
  /\ PollIdle
  /\ EEIdle
  /\ counted = 0

NextApi ==
  \/ apiRequest \/ apiAuthFetch \/ apiAuthResponse \/ apiAuthThrow
  \/ apiFetch \/ apiResponse \/ apiRetry \/ sessionLost

\* timers fire and every request sent is answered or fails
SpecApi == InitApi /\ [][NextApi]_vars /\ WF_vars(NextApi)

\* ------------------------------------------------------------ cacheService
\* Durations a caller passes in options.duration; time is in seconds.
SHORT_TERM == 86400
Durations == {SHORT_TERM, 2 * SHORT_TERM}
CacheStep == SHORT_TERM

\* new Date(Date.now() + duration), at time t
createCacheExpiration(duration, t) == t + duration

isCacheValid_inclusive(lastUpdated, duration, t) == (t - lastUpdated) <= duration

\* (Date.now() - lastUpdated.getTime()) < duration, at time t
isCacheValid(lastUpdated, duration, t) == (t - lastUpdated) < duration

\* the document written by findOneAndUpdate(..., {upsert: true}) at time t
cacheDocument(data, duration, t) ==
  [data |-> data, lastUpdated |-> t, expiresAt |-> createCacheExpiration(duration, t)]

\* no forced refetch has just completed any more
Forget == [t \in ConnectionTypes |-> << >>]

\* the profile as the upstream holds it at time t
upstreamProfile(t) == t

\* for the record of a call: the age of the document found at the check, if one was found
Age(cached, t) == IF cached = << >> THEN << >> ELSE <<t - cached[1].lastUpdated>>

\* getUserProfile up to the cache check: findOne({handle}), isValid, and the
\* return of cached.data when it is valid
getUserProfile(handle, force, duration) ==
  /\ BagCardinality(cacheCalls) < MaxCacheCalls
  /\ LET cached == userProfileCache[handle]
         isValid == /\ cached # << >>
                    /\ ~force
                    /\ isCacheValid(cached[1].lastUpdated, duration, now)
         call == [op |-> "profile", pc |-> "fetch", handle |-> handle, force |-> force,
                  duration |-> duration, age |-> Age(cached, now), fetches |-> 0, fetched |-> << >>]
     IN IF isValid
        THEN /\ lastReturn' = <<[call |-> call, outcome |-> "returned", cached |-> cached,
                                 returned |-> <<cached[1].data>>, wrote |-> << >>, wroteAt |-> NoTime]>>
             /\ UNCHANGED cacheCalls
        ELSE /\ cacheCalls' = Put(cacheCalls, call)
             /\ lastReturn' = << >>
  /\ lastForced' = Forget
  /\ UNCHANGED <<userProfileCache, connectionCache, progVars>>
  /\ UNCHANGED <<now, jobVars, graphVars, mutVars, rlVars, rqVars, api>>

\* requestQueue.queueRequest(() => atprotoService.getProfile(handle)) resolves
profileFetched(c) ==
  /\ c.op = "profile" /\ c.pc = "fetch"
  /\ cacheCalls' = Put(Take(cacheCalls, c),
                       [c EXCEPT !.pc = "write", !.fetches = @ + 1, !.fetched = <<upstreamProfile(now)>>])
  /\ lastReturn' = << >>
  /\ lastForced' = Forget
  /\ UNCHANGED <<userProfileCache, connectionCache, progVars>>
  /\ UNCHANGED <<now, jobVars, graphVars, mutVars, rlVars, rqVars, api>>

\* the upstream request rejects: getUserProfile / getUserConnections throws
fetchFails(c) ==
  /\ c.pc = "fetch"
  /\ cacheCalls' = Take(cacheCalls, c)
  /\ lastReturn' = <<[call |-> [c EXCEPT !.fetches = @ + 1], outcome |-> "threw", cached |-> << >>,
                      returned |-> << >>, wrote |-> << >>, wroteAt |-> NoTime]>>
  /\ lastForced' = Forget
  /\ UNCHANGED <<userProfileCache, connectionCache, progVars>>
  /\ UNCHANGED <<now, jobVars, graphVars, mutVars, rlVars, rqVars, api>>

\* UserProfileCache.findOneAndUpdate({handle}, {...}, {upsert: true}) and the return
profileUpsert(c) ==
  /\ c.op = "profile" /\ c.pc = "write"
  /\ LET doc == cacheDocument(c.fetched[1], c.duration, now)
     IN /\ userProfileCache' = [userProfileCache EXCEPT ![c.handle] = <<doc>>]
        /\ lastReturn' = <<[call |-> c, outcome |-> "returned", cached |-> << >>,
                            returned |-> c.fetched, wrote |-> <<doc>>, wroteAt |-> now]>>
  /\ cacheCalls' = Take(cacheCalls, c)
  /\ lastForced' = Forget
  /\ UNCHANGED <<connectionCache, progVars>>
  /\ UNCHANGED <<now, jobVars, graphVars, mutVars, rlVars, rqVars, api>>

\* the TTL index {expiresAt: 1}, expireAfterSeconds 0: the server removes a document past its time
profileExpires(h) ==
  /\ userProfileCache[h] # << >>
  /\ userProfileCache[h][1].expiresAt <= now
  /\ userProfileCache' = [userProfileCache EXCEPT ![h] = << >>]
  /\ lastReturn' = << >>
  /\ lastForced' = Forget
  /\ UNCHANGED <<connectionCache, cacheCalls, progVars>>
  /\ UNCHANGED <<now, jobVars, graphVars, mutVars, rlVars, rqVars, api>>

cacheTick ==
  /\ now < MaxCacheTicks * CacheStep
  /\ now' = now + CacheStep
  /\ lastReturn' = << >>
  /\ lastForced' = Forget
  /\ UNCHANGED <<userProfileCache, connectionCache, cacheCalls, progVars>>
  /\ UNCHANGED <<jobVars, graphVars, mutVars, rlVars, rqVars, api>>

InitProfile ==
  /\ LibIdle
  /\ jobs = << >>
  /\ now = 0
  /\ PollIdle
  /\ EEIdle
  /\ counted = 0

NextProfile ==
  \/ \E h \in Handles, force \in BOOLEAN, duration \in Durations : getUserProfile(h, force, duration)
  \/ \E c \in BagToSet(cacheCalls) : profileFetched(c)
  \/ \E c \in BagToSet(cacheCalls) : fetchFails(c)
  \/ \E c \in BagToSet(cacheCalls) : profileUpsert(c)
  \/ \E h \in Handles : profileExpires(h)
  \/ cacheTick

SpecProfile == InitProfile /\ [][NextProfile]_vars

\* ------------------------------------------------------------ cacheService: connections
\* a fetched connection without a did
NoDid == ""

\* the lists the upstream can deliver: up to MaxList entries, an entry may lack its did
Fetched(maxList) == UNION {[1..n -> Dids \cup {NoDid}] : n \in 0..maxList}

\* ConnectionCache.find({userId, 'connectionData.type': type})
cachedOfType(type) == {d \in Dids : connectionCache[d] # << >> /\ connectionCache[d][1].type = type}

\* .sort({lastUpdated: -1}): the documents that can be cached[0]
newest(found) == {d \in found : \A e \in found : connectionCache[e][1].lastUpdated <= connectionCache[d][1].lastUpdated}

\* the document upserted under _id userId:did at time t
connectionDocument(type, duration, t) ==
  [type |-> type, lastUpdated |-> t, expiresAt |-> createCacheExpiration(duration, t)]

\* getUserConnections up to the cache check for the user's connections of one
\* type; a cache hit returns cached.map(c => c.connectionData)
getUserConnections(type, force, duration) ==
  /\ BagCardinality(cacheCalls) < MaxCacheCalls
  /\ LET found == cachedOfType(type)
         first == IF found = {} THEN << >> ELSE <<connectionCache[CHOOSE d \in newest(found) : TRUE][1]>>
         isValid == /\ found # {}
                    /\ ~force
                    /\ isCacheValid(first[1].lastUpdated, duration, now)
         call == [op |-> "connections", pc |-> "fetch", type |-> type, force |-> force,
                  duration |-> duration, age |-> Age(first, now), fetches |-> 0,
                  connections |-> << >>, connectionData |-> << >>, after |-> lastForced[type]]
     IN IF isValid
        THEN /\ lastReturn' = <<[call |-> call, outcome |-> "returned", returned |-> found]>>
             /\ UNCHANGED cacheCalls
        ELSE /\ cacheCalls' = Put(cacheCalls, call)
             /\ lastReturn' = << >>
  /\ lastForced' = Forget
  /\ UNCHANGED <<userProfileCache, connectionCache, progVars>>
  /\ UNCHANGED <<now, jobVars, graphVars, mutVars, rlVars, rqVars, api>>

\* requestQueue.queueRequest(() => getFollowers(handle) | getFollowing(handle)) resolves
connectionsFetched(c, list) ==
  /\ c.op = "connections" /\ c.pc = "fetch"
  /\ cacheCalls' = Put(Take(cacheCalls, c),
                       [c EXCEPT !.pc = "write", !.fetches = @ + 1, !.connections = list])
  /\ lastReturn' = << >>
  /\ lastForced' = Forget
  /\ UNCHANGED <<userProfileCache, connectionCache, progVars>>
  /\ UNCHANGED <<now, jobVars, graphVars, mutVars, rlVars, rqVars, api>>

\* one iteration of 'for (const connection of connections)': skip an entry
\* without did, else findOneAndUpdate({_id: userId:did}, ..., {upsert: true})
\* and connectionData.push(data)
connectionUpsert(c) ==
  /\ c.op = "connections" /\ c.pc = "write"
  /\ c.connections # << >>
  /\ LET did == Head(c.connections)
     IN IF did = NoDid
        THEN /\ cacheCalls' = Put(Take(cacheCalls, c), [c EXCEPT !.connections = Tail(@)])
             /\ UNCHANGED connectionCache
        ELSE /\ connectionCache' =
                  [connectionCache EXCEPT ![did] = <<connectionDocument(c.type, c.duration, now)>>]
             /\ cacheCalls' = Put(Take(cacheCalls, c),
                                  [c EXCEPT !.connections = Tail(@), !.connectionData = Append(@, did)])
  /\ lastReturn' = << >>
  /\ lastForced' = Forget
  /\ UNCHANGED <<userProfileCache, progVars>>
  /\ UNCHANGED <<now, jobVars, graphVars, mutVars, rlVars, rqVars, api>>

\* the loop is over: return connectionData
connectionsReturn(c) ==
  /\ c.op = "connections" /\ c.pc = "write"
  /\ c.connections = << >>
  /\ LET returned == {c.connectionData[i] : i \in 1..Len(c.connectionData)}
     IN /\ lastReturn' = <<[call |-> c, outcome |-> "returned", returned |-> returned]>>
        /\ lastForced' = IF c.force THEN [Forget EXCEPT ![c.type] = <<returned>>] ELSE Forget
  /\ cacheCalls' = Take(cacheCalls, c)
  /\ UNCHANGED <<userProfileCache, connectionCache, progVars>>
  /\ UNCHANGED <<now, jobVars, graphVars, mutVars, rlVars, rqVars, api>>

\* the TTL index {expiresAt: 1} of the connection cache
connectionExpires(d) ==
  /\ connectionCache[d] # << >>
  /\ connectionCache[d][1].expiresAt <= now
  /\ connectionCache' = [connectionCache EXCEPT ![d] = << >>]
  /\ lastReturn' = << >>
  /\ lastForced' = Forget
  /\ UNCHANGED <<userProfileCache, cacheCalls, progVars>>
  /\ UNCHANGED <<now, jobVars, graphVars, mutVars, rlVars, rqVars, api>>

NextConnections ==
  \/ \E type \in ConnectionTypes, force \in BOOLEAN, duration \in Durations :
       getUserConnections(type, force, duration)
  \/ \E c \in BagToSet(cacheCalls), list \in Fetched(MaxList) : connectionsFetched(c, list)
  \/ \E c \in BagToSet(cacheCalls) : fetchFails(c)
  \/ \E c \in BagToSet(cacheCalls) : connectionUpsert(c)
  \/ \E c \in BagToSet(cacheCalls) : connectionsReturn(c)
  \/ \E d \in Dids : connectionExpires(d)
  \/ cacheTick

SpecConnections == InitProfile /\ [][NextConnections]_vars

\* ------------------------------------------------------------ NetworkAnalysisService.processJob
TOTAL_STEPS == 4
MEDIUM_TERM == 7 * SHORT_TERM
LONG_TERM == 30 * SHORT_TERM

\* {userId, handle, stats, communities, lastUpdated: doc.lastUpdated.toISOString()}
convertToAnalysisResult(doc) == [from |-> "cache", stats |-> doc.stats, lastUpdated |-> doc.lastUpdated]

\* cacheService.getMutualConnections(profile.did) at time t, with its default
\* options {duration: MEDIUM_TERM}: the stored analysis if valid, else null
getMutualConnections(t) ==
  IF networkAnalysis # << >> /\ isCacheValid(networkAnalysis[1].lastUpdated, MEDIUM_TERM, t)
  THEN <<convertToAnalysisResult(networkAnalysis[1])>>
  ELSE << >>

useCached_ignoreForce(cachedMutuals, force) == cachedMutuals # << >>

\* if (cachedMutuals && !force)
useCached(cachedMutuals, force) == cachedMutuals # << >> /\ ~force

Update(stage, current, total, details) ==
  [stage |-> stage, current |-> current, total |-> total, details |-> details]

Details(nodes, edges, communities) ==
  [processedNodes |-> nodes, processedEdges |-> edges, discoveredCommunities |-> communities]

onBuilderProgress_passThrough(p) == p

\* the callback handed to buildCompleteNetwork: whatever the builder reports
\* is published as ('analyzing', 2, 4) with the builder's details
onBuilderProgress(p) == Update("analyzing", 2, 4, p.details)

\* processJob is called for an attempt: job.status = PENDING, save, initializeAtProtocol
startAnalysis(force) ==
  /\ analysis.pc \in {"idle", "completed", "threw"}
  /\ analysis' = [pc |-> "initialize", force |-> force, followers |-> 0, following |-> 0,
                  mutuals |-> 0, step |-> 0, left |-> 0, builderNodes |-> 0,
                  checked |-> FALSE, cachedAge |-> << >>, fetched |-> FALSE, result |-> << >>, stored |-> << >>]
  /\ progress' = << >>
  /\ UNCHANGED <<now, jobVars, graphVars, mutVars, rlVars, rqVars, api, cacheVars, networkAnalysis>>

\* save and initializeAtProtocol resolved: updateProgress('initializing', 0, 4)
initialized ==
  /\ analysis.pc = "initialize"
  /\ progress' = Append(progress, Update("initializing", 0, 4, Details(0, 0, 0)))
  /\ analysis' = [analysis EXCEPT !.pc = "profile"]
  /\ UNCHANGED <<now, jobVars, graphVars, mutVars, rlVars, rqVars, api, cacheVars, networkAnalysis>>

\* fetchUserProfile and getMutualConnections resolved; a cached analysis is
\* returned unless force
profileChecked ==
  /\ analysis.pc = "profile"
  /\ \E cachedMutuals \in {getMutualConnections(now)} :
       analysis' = IF useCached(cachedMutuals, analysis.force)
                   THEN [analysis EXCEPT !.pc = "returned", !.result = cachedMutuals, !.checked = TRUE,
                                         !.cachedAge = Age(networkAnalysis, now)]
                   ELSE [analysis EXCEPT !.pc = "connections", !.fetched = TRUE, !.checked = TRUE,
                                         !.cachedAge = Age(networkAnalysis, now)]
  /\ UNCHANGED progress
  /\ UNCHANGED <<now, jobVars, graphVars, mutVars, rlVars, rqVars, api, cacheVars, networkAnalysis>>

\* fetchConnections resolved, findMutualConnections: updateProgress('collecting', 1, 4)
collected(nFollowers, nFollowing, nMutuals) ==
  /\ analysis.pc = "connections"
  /\ progress' = Append(progress, Update("collecting", 1, 4, Details(nFollowers + nFollowing, 0, 0)))
  /\ analysis' = [analysis EXCEPT !.pc = "build", !.followers = nFollowers, !.following = nFollowing,
                                  !.mutuals = nMutuals, !.step = 1]
  /\ UNCHANGED <<now, jobVars, graphVars, mutVars, rlVars, rqVars, api, cacheVars, networkAnalysis>>

\* buildCompleteNetwork up to its next 'await updateProgress(...)': the
\* builder's own stage and currentStep go through the callback
builderProgress ==
  /\ analysis.pc = "build"
  /\ analysis.step \in 1..5
  /\ LET a == analysis
         \* its own fetch of the two lists; taken to deliver what fetchConnections got
         nFollowers == a.followers
         nFollowing == a.following
         report(stage, current, nodes, edges, communities) ==
           Append(progress, onBuilderProgress(Update(stage, current, TOTAL_STEPS, Details(nodes, edges, communities))))
     IN CASE a.step = 1 ->
               /\ progress' = report("initializing", 0, 0, 0, 0)
               /\ analysis' = [a EXCEPT !.step = 2]
          [] a.step = 2 ->
               /\ progress' = report("profile", 1, 1, 0, 0)
               /\ analysis' = [a EXCEPT !.step = 3, !.builderNodes = 1]
          [] a.step = 3 ->
               /\ progress' = report("connections", 2, 1 + nFollowers + nFollowing, 0, 0)
               /\ analysis' = [a EXCEPT !.step = 4, !.left = nFollowing,
                                        !.builderNodes = 1 + nFollowers + nFollowing]
          [] a.step = 4 /\ a.left > 0 ->
               /\ progress' = report("analyzing", 2, a.builderNodes, 0, 0)
               /\ analysis' = [a EXCEPT !.left = @ - 1]
          [] a.step = 4 /\ a.left = 0 ->
               /\ progress' = report("analyzing", 3, a.builderNodes, a.mutuals, 0)
               /\ analysis' = [a EXCEPT !.step = 5]
          [] a.step = 5 ->
               /\ progress' = report("complete", TOTAL_STEPS, a.builderNodes, a.mutuals, 1)
               /\ analysis' = [a EXCEPT !.step = 6]
  /\ UNCHANGED <<now, jobVars, graphVars, mutVars, rlVars, rqVars, api, cacheVars, networkAnalysis>>

\* a fetch inside buildCompleteNetwork rejects: its catch reports 'error' and rethrows
builderFails ==
  /\ analysis.pc = "build"
  /\ analysis.step \in {2, 3}
  /\ progress' = Append(progress, onBuilderProgress(Update("error", 0, TOTAL_STEPS, Details(0, 0, 0))))
  /\ analysis' = [analysis EXCEPT !.pc = "catch"]
  /\ UNCHANGED <<now, jobVars, graphVars, mutVars, rlVars, rqVars, api, cacheVars, networkAnalysis>>

\* the network is built: createGraph, detectCommunities, updateProgress('processing', 3, 4)
builderReturns(nCommunities) ==
  /\ analysis.pc = "build"
  /\ analysis.step = 6
  /\ nCommunities <= analysis.mutuals + 1
  /\ progress' = Append(progress, Update("processing", 3, 4,
                          Details(analysis.followers + analysis.following, analysis.mutuals, nCommunities)))
  /\ analysis' = [analysis EXCEPT !.pc = "store", !.left = nCommunities]
  /\ UNCHANGED <<now, jobVars, graphVars, mutVars, rlVars, rqVars, api, cacheVars, networkAnalysis>>

\* storeNetworkAnalysis(analysis, {duration: LONG_TERM, force: true}) upserts
\* {...analysis, lastUpdated: new Date(), expiresAt} under {userId}; then
\* updateProgress('completed', 4, 4), return analysis
stored ==
  /\ analysis.pc = "store"
  /\ LET stats == [followers |-> analysis.followers, following |-> analysis.following,
                   mutuals |-> analysis.mutuals]
         doc == [stats |-> stats, lastUpdated |-> now, expiresAt |-> createCacheExpiration(LONG_TERM, now)]
     IN /\ networkAnalysis' = <<doc>>
        /\ analysis' = [analysis EXCEPT !.pc = "returned", !.stored = <<doc>>,
                          !.result = <<[from |-> "computed", stats |-> stats, lastUpdated |-> now]>>]
  /\ progress' = Append(progress, Update("completed", 4, 4,
                          Details(analysis.followers + analysis.following, analysis.mutuals, analysis.left)))
  /\ UNCHANGED <<now, jobVars, graphVars, mutVars, rlVars, rqVars, api, cacheVars>>

\* the TTL index {expiresAt: 1} of the NetworkAnalysis collection
analysisExpires ==
  /\ networkAnalysis # << >>
  /\ networkAnalysis[1].expiresAt <= now
  /\ networkAnalysis' = << >>
  /\ UNCHANGED <<analysis, progress>>
  /\ UNCHANGED <<now, jobVars, graphVars, mutVars, rlVars, rqVars, api, cacheVars>>

\* time passes, between attempts or between the cache check and the store
analysisTick(step) ==
  /\ analysis.pc \in {"completed", "threw", "connections"}
  /\ now < MaxAnalysisTicks * MEDIUM_TERM
  /\ now' = now + step
  /\ UNCHANGED <<jobVars, graphVars, mutVars, rlVars, rqVars, api, cacheVars, progVars>>

\* one of the awaited calls of processJob itself rejects
analysisFails ==
  /\ analysis.pc \in {"initialize", "profile", "connections", "store"}
  /\ analysis' = [analysis EXCEPT !.pc = "catch"]
  /\ UNCHANGED progress
  /\ UNCHANGED <<now, jobVars, graphVars, mutVars, rlVars, rqVars, api, cacheVars, networkAnalysis>>

\* catch: updateProgress('error', 0, 4), throw
analysisCatch ==
  /\ analysis.pc = "catch"
  /\ progress' = Append(progress, Update("error", 0, 4, Details(0, 0, 0)))
  /\ analysis' = [analysis EXCEPT !.pc = "threw"]
  /\ UNCHANGED <<now, jobVars, graphVars, mutVars, rlVars, rqVars, api, cacheVars, networkAnalysis>>

\* JobProcessor.processJob after the handler returned: job.data = result, job.complete()
jobCompleted ==
  /\ analysis.pc = "returned"
  /\ analysis' = [analysis EXCEPT !.pc = "completed"]
  /\ UNCHANGED progress
  /\ UNCHANGED <<now, jobVars, graphVars, mutVars, rlVars, rqVars, api, cacheVars, networkAnalysis>>

NextProgress ==
  \/ \E force \in BOOLEAN : startAnalysis(force)
  \/ initialized
  \/ profileChecked
  \/ \E f \in 0..MaxList, g \in 0..MaxList : \E m \in 0..(IF f < g THEN f ELSE g) : collected(f, g, m)
  \/ builderProgress
  \/ builderFails
  \/ \E k \in 0..(MaxList + 1) : builderReturns(k)
  \/ stored
  \/ analysisExpires
  \/ \E step \in {MEDIUM_TERM, LONG_TERM} : analysisTick(step)
  \/ jobCompleted
  \/ analysisFails
  \/ analysisCatch

SpecProgress == InitProfile /\ [][NextProgress]_vars

\* ------------------------------------------------------------ properties
Active(h) ==
  {j \in JobIds : jobs[j].handle = h /\ jobs[j].status \in {"pending", "in_progress"}}

\* C1: for every handle there is never more than one job with status pending
\* or in_progress (at-most-one-active-job-per-handle), whatever createJob
\* calls and processing steps of the polling JobProcessor interleave.
C1_AtMostOneActivePerHandle ==
  \A h \in Handles : Cardinality(Active(h)) <= 1

\* handler invocations for job j that have started and not returned
Invocations(j) ==
  {w \in BagToSet(workers) : w.id = j /\ w.pc \in {"started", "running"}}

\* C2: a second handler invocation for a job never starts while an earlier
\* invocation for the same job has not returned.
C2_NoConcurrentHandlerForOneJob ==
  \A j \in JobIds :
    /\ Cardinality(Invocations(j)) <= 1
    /\ \A w \in Invocations(j) : CopiesIn(w, workers) = 1

\* C3: when the handler of the polling JobProcessor throws and the job's
\* attempts are below maxAttempts, the attempt ends with status pending and
\* nextAttempt = now + 2^attempts seconds; with attempts >= maxAttempts it ends
\* with status failed and the error message stored.
C3_RetryReturnsToPending ==
  [][\A w \in BagToSet(workers) :
       handlerThrows(w) =>
         IF w.attempts < MAX_ATTEMPTS
         THEN /\ jobs'[w.id].status = "pending"
              /\ jobs'[w.id].nextAttempt = now + Pow2(w.attempts)
         ELSE /\ jobs'[w.id].status = "failed"
              /\ jobs'[w.id].error # ""]_vars

\* C8: whenever a job of the priority handle is pending and eligible, every
\* job getNextJob of the polling JobProcessor may return is a job of the
\* priority handle.
C8_PriorityHandleFirst ==
  (\E j \in Eligible(jobs, processingJobs, now) : jobs[j].handle = PRIORITY_HANDLE)
    => \A s \in getNextJob(jobs, processingJobs, now) : jobs[s].handle = PRIORITY_HANDLE

AllowedTransitions ==
  {<<"pending", "in_progress">>, <<"in_progress", "completed">>,
   <<"in_progress", "pending">>, <<"in_progress", "failed">>}

\* C10: every status change of a job record made by the polling JobProcessor
\* and the network-analysis handler is pending -> in_progress, in_progress ->
\* completed, in_progress -> pending or in_progress -> failed.
C10_StatusTransitions ==
  [][\A j \in JobIds :
       jobs'[j].status # jobs[j].status
         => <<jobs[j].status, jobs'[j].status>> \in AllowedTransitions]_vars

ThrowThrowOk == <<"throw", "throw", "ok">>

\* C4: in the EventEmitter JobProcessor a job (maxAttempts = 3) whose handler
\* throws on attempts 1 and 2 and succeeds on attempt 3 has been rescheduled
\* exactly twice, the second backoff delay larger than the first, and is
\* completed with attempts = 3 without ever having been failed.
C4_TwoRetriesThenCompleted ==
  \A j \in JobIds :
    hist[j].out = ThrowThrowOk =>
      /\ Len(hist[j].delays) = 2
      /\ hist[j].delays[2] > hist[j].delays[1]
      /\ jobs[j].status = "completed"
      /\ jobs[j].attempts = 3
      /\ ~hist[j].failed

C4_Witness ==
  \E j \in JobIds : hist[j].out = ThrowThrowOk /\ jobs[j].status = "completed"

\* C5: inside one UTC day at most DAILY_REFRESH_LIMIT processing attempts are
\* started for the jobs of a non-priority handle.
C5_DailyQuotaPerHandle ==
  \A h \in Handles \ {PRIORITY_HANDLE} : starts[h] <= DAILY_REFRESH_LIMIT

CreateDecision(h, p, st) ==
  \E c \in BagToSet(eeCalls') :
    /\ c.handle = h
    /\ c.status = st
    /\ c.error = (IF st = "rateLimited" THEN "Daily refresh limit exceeded" ELSE "")
    /\ eeCalls' = Put(eeCalls, c)

C7_RateLimitedIsTerminal ==
  [][/\ \A j \in JobIds :
          jobs[j].status = "rateLimited" =>
            /\ jobs'[j].status = "rateLimited"
            /\ jobs'[j].attempts = 0
            /\ hist'[j].out = << >>
            /\ currentJob' # j
     /\ \A j \in DOMAIN jobs' \ JobIds :
          /\ jobs'[j].status = "rateLimited" => jobs'[j].attempts = 0
          /\ jobs'[j].handle = PRIORITY_HANDLE => jobs'[j].status # "rateLimited"]_vars

\* a rateLimited job exists and a job created after it has been processed;
\* a priority-handle job was created although a record of the handle is at the limit
C7_Witness ==
  /\ \E j, k \in JobIds :
       /\ j < k
       /\ jobs[j].status = "rateLimited"
       /\ hist[k].out # << >>
  /\ \E j, k \in JobIds :
       /\ j < k
       /\ jobs[j].handle = PRIORITY_HANDLE /\ overLimit(jobs[j])
       /\ jobs[k].handle = PRIORITY_HANDLE

\* C9: the number of jobs in the processing state never exceeds
\* MAX_CONCURRENT_JOBS, however findNextJob calls interleave.
C9_ConcurrencyCap ==
  Cardinality({j \in JobIds : jobs[j].status = "processing"}) <= MAX_CONCURRENT_JOBS


\* ------------------------------------------------------------ graphProcessor properties
Members(c) == {c.members[i] : i \in 1..Len(c.members)}
NodeSet(g) == {g.nodes[i] : i \in 1..Len(g.nodes)}

\* C11: for a graph with at least one edge, the communities detectCommunities
\* returns have pairwise disjoint member lists without repetition whose union is
\* the node set, none is empty, and each size equals the number of members.
C11_Partition ==
  \A r \in 1..Len(runs) :
    Len(graph.edges) >= 1 =>
      LET cs == runs[r] IN
      /\ \A i, j \in 1..Len(cs) : i # j => Members(cs[i]) \cap Members(cs[j]) = {}
      /\ \A i \in 1..Len(cs) :
           /\ Cardinality(Members(cs[i])) = Len(cs[i].members)
           /\ Len(cs[i].members) > 0
           /\ cs[i].size = Len(cs[i].members)
      /\ UNION {Members(cs[i]) : i \in 1..Len(cs)} = NodeSet(graph)

\* a run in which a node moved: a community of two or more next to another one
C11_Witness ==
  /\ Len(runs) >= 1
  /\ Len(graph.edges) >= 1
  /\ Len(runs[1]) >= 2
  /\ \E i \in 1..Len(runs[1]) : runs[1][i].size >= 2

\* C12: on the graph A, B, C, D with edges (A,B), (A,C), (B,C), (A,D), one
\* returned community holds A, B and C, and its density is 1 when D is not in it.
C12_TriangleTogether ==
  (graph = TriangleWithPendant /\ Len(runs) >= 1) =>
    \E i \in 1..Len(runs[1]) :
      LET c == runs[1][i] IN
      /\ {"A", "B", "C"} \subseteq Members(c)
      /\ ("D" \notin Members(c) => c.density[1] = c.density[2])


\* C13: every edge of the graph createGraph returns has a source and a target
\* that are ids of returned nodes, and an additional edge with a missing or
\* unknown end is not among the returned edges.
C13_EdgesValid ==
  cgArgs # << >> =>
    /\ \A e \in 1..Len(graph.edges) :
         /\ graph.edges[e].source \in NodeSet(graph)
         /\ graph.edges[e].target \in NodeSet(graph)
    /\ \A x \in 1..Len(cgArgs[1].additionalEdges) :
         LET a == cgArgs[1].additionalEdges[x] IN
         (\/ a.source = Missing \/ a.target = Missing
          \/ a.source \notin NodeSet(graph) \/ a.target \notin NodeSet(graph))
           => \A e \in 1..Len(graph.edges) :
                ~(graph.edges[e].source = a.source /\ graph.edges[e].target = a.target)

\* a call with two mutual records, an additional edge between the two that is
\* kept and an additional edge with an unknown end that is dropped
C13_Witness ==
  /\ cgArgs # << >>
  /\ \E i \in 1..Len(cgArgs[1].mutuals) : cgArgs[1].mutuals[i].connectionId = "A"
  /\ \E x \in 1..Len(cgArgs[1].additionalEdges) : cgArgs[1].additionalEdges[x].target = Unknown
  /\ \E x \in 1..Len(cgArgs[1].additionalEdges) :
       cgArgs[1].additionalEdges[x] = [source |-> "A", target |-> "B"]
  /\ Len(graph.edges) = 3


DidSet(list) == {list[i].did : i \in 1..Len(list)}

\* C14: the DIDs of the accounts findMutualConnections returned are the DIDs
\* occurring in both lists, whatever the order of the lists is or becomes, and
\* whatever the handles are.
C14_MutualsAreIntersection ==
  mutualList # << >> =>
    DidSet(mutualList[1]) = DidSet(followers) \cap DidSet(following)

\* a result that keeps one account and drops another whose handle occurs in the
\* other list under a different DID
C14_Witness ==
  /\ mutualList # << >>
  /\ Len(mutualList[1]) = 1
  /\ Len(followers) = 2
  /\ \E i \in 1..Len(followers), j \in 1..Len(following) :
       /\ followers[i].handle = following[j].handle
       /\ followers[i].did # following[j].did
       /\ followers[i].did \notin DidSet(mutualList[1])

\* C15: a graph without nodes or without edges yields the empty community list.
C15_EmptyWithoutEdges ==
  \A r \in 1..Len(runs) :
    (Len(graph.nodes) = 0 \/ Len(graph.edges) = 0) => runs[r] = << >>

\* a run on a graph that has nodes and no edge
C15_Witness ==
  /\ Len(runs) >= 1
  /\ Len(graph.nodes) >= 1
  /\ Len(graph.edges) = 0
  /\ runs[1] = << >>

C17_WindowBudget ==
  \A w \in 0..(RlStart + MaxRlTime) :
    Cardinality({i \in 1..Len(admitted) :
                   w <= admitted[i].stamp /\ admitted[i].stamp < w + timeWindow}) <= maxRequests


\* C18: at any time at most maxConcurrentRequests request functions have been
\* started by queueRequest and have not settled.
C18_ConcurrencyCap ==
  Cardinality({c \in RqIds : rqCalls[c].pc = "running"}) <= maxConcurrentRequests

\* C19: of any two request functions queueRequest starts one after the other,
\* the second starts at least minRequestDelay after the first.
C19_MinSpacing ==
  \A i \in 1..(Len(dispatched) - 1) : dispatched[i + 1] - dispatched[i] >= minRequestDelay


ApiDone == api.pc \in {"returned", "failed"}
All429(responses) == \A i \in 1..Len(responses) : responses[i] = "429"

\* C20 as claimed: apiRequest(retries = r) ends after at most r + 1 requests to
\* the provider; if all of them were answered 429 it fails with the rate limit
\* error after the (r + 1)-th, and after a success it returns at once.
C20_AtMostRPlusOneProviderCalls ==
  api.pc # "idle" =>
    /\ api.calls + api.auths <= api.r0 + 1
    /\ (ApiDone /\ All429(api.responses) /\ api.error \notin {AuthFailed, RequestFailed})
         => /\ api.pc = "failed"
            /\ api.error = RateLimitExceeded
            /\ api.calls + api.auths = api.r0 + 1

ApiSafe ==
  api.pc # "idle" =>
    /\ api.calls <= api.r0 + 1
    /\ api.auths <= api.calls + 1
    /\ (api.error \in AuthErrors) => api.pc = "failed"
    /\ (ApiDone /\ api.error \notin AuthErrors /\ All429(api.responses))
         => /\ api.pc = "failed"
            /\ api.error = RateLimitExceeded
            /\ api.calls = api.r0 + 1
    /\ api.pc = "returned"
         => /\ Len(api.responses) = api.calls
            /\ \A i \in 1..api.calls : (api.responses[i] = "ok") <=> (i = api.calls)

\* C20, amended: apiRequest(retries = r) ends after at most r + 1 requests to the
\* endpoint, each preceded by at most one authentication request, and a failed
\* authentication ends it at once; if authentication did not fail and all
\* endpoint answers were 429 it fails with the rate limit error after the
\* (r + 1)-th endpoint request; after a successful answer it returns without
\* another request.
C20_BoundedRetries == []ApiSafe /\ <>ApiDone

\* an uninitialized service, authentication succeeds, every answer is 429
C20_Witness ==
  /\ api.pc = "failed"
  /\ api.error = RateLimitExceeded
  /\ api.r0 >= 2
  /\ api.calls = api.r0 + 1
  /\ api.auths = 1

\* the adjacency map and edge count that a detectCommunities call on the graph works with
AdjOf(g) == adjacencyMap(g.edges, Len(g.edges))

\* C26: a visited node is moved only to a candidate community, other than its
\* own, whose gain is positive and strictly greater than the gain of every
\* other candidate; on a tie for the highest gain the node stays where it is
C26_MoveRule ==
  \A r \in 1..Len(trace) :
    \A k \in 1..Len(trace[r].visits) :
      LET v == trace[r].visits[k] IN
      v.to # v.from =>
        \E i \in 1..Len(v.gains) :
          /\ v.gains[i].community = v.to
          /\ v.gains[i].community # v.from
          /\ v.gains[i].gain > 0
          /\ \A j \in 1..Len(v.gains) : j # i => v.gains[j].gain < v.gains[i].gain

\* C27: the communities returned have a modularity, as calculateModularity
\* computes it, that is at least the modularity of the singletons the call
\* started from and at least the modularity found after every pass
C27_BestPartitionReturned ==
  \A r \in 1..Len(runs) :
    \A returned \in {calculateModularity(runs[r], AdjOf(graph), Len(graph.edges))} :
      /\ returned >= trace[r].initial
      /\ \A p \in 1..Len(trace[r].passes) : returned >= trace[r].passes[p].newModularity

\* the edges that join node v to another end, and the ends they join it to
Incident(g, v) ==
  {e \in 1..Len(g.edges) : g.edges[e].source = v \/ g.edges[e].target = v}
OtherEnd(g, e, v) == IF g.edges[e].source = v THEN g.edges[e].target ELSE g.edges[e].source

\* node v has no edge to itself and at most one edge to each other end
SimplyJoined(g, v) ==
  \A e \in Incident(g, v) :
    /\ OtherEnd(g, e, v) # v
    /\ \A f \in Incident(g, v) : f # e => OtherEnd(g, f, v) # OtherEnd(g, e, v)

\* C28: the degree the detector reads for a node counts each neighbor joined
\* by a mutual edge twice and each neighbor joined by a follows edge once
C28_WeightsHonoured ==
  Len(runs) >= 1 =>
    \A adj \in {AdjOf(graph)}, i \in 1..Len(graph.nodes) :
      LET v == graph.nodes[i] IN
      SimplyJoined(graph, v) =>
        Len(adj[v]) =
          SumSeq([e \in 1..Len(graph.edges) |->
                    IF e \in Incident(graph, v) THEN EDGE_WEIGHTS(graph.edges[e].type) ELSE 0])

IndexOf(seq, x) == CHOOSE i \in 1..Len(seq) : seq[i] = x

\* C30: centralNodes of a returned community lists min(3, size) distinct
\* members, in non-increasing order of their degree inside the community,
\* members of equal degree in member order, and leaves out no member of
\* strictly higher degree than one it lists
C30_CentralNodes ==
  \A adj \in {AdjOf(graph)}, r \in 1..Len(runs) :
    \A c \in 1..Len(runs[r]) :
      LET ms == runs[r][c].members
          cn == runs[r][c].centralNodes
          deg(m) == Inside(ms, adj, m)
      IN /\ Len(cn) = IF runs[r][c].size < 3 THEN runs[r][c].size ELSE 3
         /\ \A i \in 1..Len(cn) : Member(cn[i], ms)
         /\ \A i, j \in 1..Len(cn) : i < j =>
              /\ cn[i] # cn[j]
              /\ deg(cn[i]) >= deg(cn[j])
              /\ deg(cn[i]) = deg(cn[j]) => IndexOf(ms, cn[i]) < IndexOf(ms, cn[j])
         /\ \A m \in 1..Len(ms) :
              ~Member(ms[m], cn) => \A i \in 1..Len(cn) : deg(ms[m]) <= deg(cn[i])

\* a returned community of four members whose central nodes are not its first three members
C30_Witness ==
  /\ Len(runs) >= 1
  /\ \E c \in 1..Len(runs[1]) :
       /\ runs[1][c].size >= 4
       /\ runs[1][c].centralNodes # SubSeq(runs[1][c].members, 1, 3)

\* C24: once stop() has returned, no job goes from pending to in_progress
\* and no handler invocation starts, whatever else is called afterwards
C24_StopStopsScheduler ==
  [][~processingInterval =>
       /\ \A j \in JobIds : jobs[j].status = "pending" => jobs'[j].status # "in_progress"
       /\ \A w \in BagToSet(workers') : w.pc = "started" => w \in BagToSet(workers)]_vars

\* the handler of job j has been called and has not returned
InHandler(j) == \E w \in BagToSet(workers) : w.id = j /\ w.pc \in {"started", "running"}

\* job j as checkStuckJobs leaves it
SweptBack(j) ==
  /\ jobs[j].status = "pending"
  /\ jobs[j].startedAt = NoTime
  /\ j \notin processingJobs

\* job j was started more than five minutes ago
Stale(j) == jobs[j].startedAt # NoTime /\ jobs[j].startedAt < now - STUCK_THRESHOLD

\* C25: a job whose handler was called more than five minutes ago and does not
\* return is in the end reset by checkStuckJobs to pending with startedAt
\* cleared and taken out of processingJobs; and a step of the sweep resets
\* only a job that is in_progress and was started more than five minutes ago
C25_StuckJobRecovery ==
  /\ \A j \in 1..MaxJobs :
       (j \in JobIds /\ InHandler(j) /\ Stale(j))
         ~> (j \in JobIds /\ (~InHandler(j) \/ SweptBack(j)))
  /\ [][\A j \in JobIds : checkStuckJobs(j) => IsStuck(jobs[j], now)]_vars

\* the cache check of call c found a document it could serve
Served(c) ==
  /\ c.age # << >>
  /\ ~c.force
  /\ c.age[1] < c.duration

C22_ForcedReadOverwrites ==
  \A k \in 1..Len(lastReturn) :
    LET r == lastReturn[k]
        c == r.call
    IN (c.op = "connections" /\ ~c.force /\ c.after # << >> /\ c.fetches = 0 /\ r.outcome = "returned")
         => r.returned = c.after[1]

\* the place of a stage in the order initializing, collecting, analyzing,
\* processing, completed | error
StageRank(stage) ==
  CASE stage = "initializing" -> 1
    [] stage = "collecting" -> 2
    [] stage = "analyzing" -> 3
    [] stage = "processing" -> 4
    [] stage \in {"completed", "error"} -> 5
    [] OTHER -> 0

\* current/total of update p is at most that of update q
RatioLeq(p, q) == p.current * q.total <= q.current * p.total

\* C23 as stated: along the updates of one attempt current/total never
\* decreases and the stage never moves backwards
C23_ProgressMonotone ==
  \A i \in 1..(Len(progress) - 1) :
    /\ RatioLeq(progress[i], progress[i + 1])
    /\ StageRank(progress[i].stage) <= StageRank(progress[i + 1].stage)

\* C23 amended: the stage never moves backwards; current/total never decreases
\* from one update to the next unless the next is the 'error' update, which
\* is the last update of the attempt and reports 0 of 4
C23_ProgressMonotoneUntilError ==
  \A i \in 1..Len(progress) :
    /\ StageRank(progress[i].stage) > 0
    /\ progress[i].stage = "error" =>
         /\ i = Len(progress)
         /\ progress[i].current = 0 /\ progress[i].total = 4
    /\ i < Len(progress) =>
         /\ StageRank(progress[i].stage) <= StageRank(progress[i + 1].stage)
         /\ progress[i + 1].stage # "error" => RatioLeq(progress[i], progress[i + 1])

\* an attempt that failed inside the network build, after 'collecting' and
\* 'analyzing' updates
C23_Witness ==
  /\ analysis.pc = "threw"
  /\ Len(progress) >= 4
  /\ progress[Len(progress)].stage = "error"
  /\ progress[Len(progress) - 1].stage = "analyzing"
  /\ progress[2].stage = "collecting"

\* C40: no job record has more attempts than maxAttempts, and no handler
\* invocation is for a job that had maxAttempts attempts already when it was taken
C40_AttemptsBounded ==
  /\ \A j \in JobIds : jobs[j].attempts <= MAX_ATTEMPTS
  /\ \A w \in BagToSet(workers) : w.pc \in {"started", "running"} => w.attempts <= MAX_ATTEMPTS

\* C31: the nodes createGraph returns hold userId exactly once and no id
\* twice, they are userId and the connectionIds of the mutual records that
\* have one, and a record without connectionId gives no node and no edge
C31_NodesUnique ==
  cgArgs # << >> =>
    LET userId == cgArgs[1].userId
        mutuals == cgArgs[1].mutuals
        ids == {mutuals[i].connectionId : i \in 1..Len(mutuals)} \ {Missing}
    IN /\ Cardinality({i \in 1..Len(graph.nodes) : graph.nodes[i] = userId}) = 1
       /\ \A i \in 1..Len(graph.nodes), k \in 1..Len(graph.nodes) :
            graph.nodes[i] = graph.nodes[k] => i = k
       /\ NodeSet(graph) = {userId} \cup ids
       /\ Len(graph.nodes) = Cardinality({userId} \cup ids)
       /\ \A e \in 1..Len(graph.edges) :
            graph.edges[e].source # Missing /\ graph.edges[e].target # Missing

\* a call whose records are one without connectionId and one for account A
C31_Witness ==
  /\ cgArgs # << >>
  /\ cgArgs[1].userId = Central
  /\ Len(cgArgs[1].mutuals) = 2
  /\ cgArgs[1].mutuals[1].connectionId = Missing
  /\ cgArgs[1].mutuals[2].connectionId = "A"
  /\ graph.nodes = <<Central, "A">>
  /\ Len(graph.edges) = 1

\* C37: density and cohesion of every community detected on a graph made by
\* createGraph lie between 0 and 1
C37_MetricsAreRatios ==
  (cgArgs # << >>) =>
    \A r \in 1..Len(runs) : \A i \in 1..Len(runs[r]) :
      LET c == runs[r][i] IN
      /\ c.density[2] > 0 /\ 0 <= c.density[1] /\ c.density[1] <= c.density[2]
      /\ c.cohesion[2] > 0 /\ 0 <= c.cohesion[1] /\ c.cohesion[1] <= c.cohesion[2]

\* C38: an account the cache holds for the user under one type is still held
\* under that type, for a non-forced read of that type to return, after a
\* read of the other type has cached the same account
C38_BothTypesKept ==
  [][\A c \in BagToSet(cacheCalls) :
       connectionUpsert(c) =>
         \A t \in ConnectionTypes : \A d \in cachedOfType(t) : d \in cachedOfType(t)']_vars

\* C39: when the job of an attempt has been completed, the last progress
\* update of the attempt is ('completed', 4, 4)
C39_CompletedProgress ==
  analysis.pc = "completed" =>
    /\ progress # << >>
    /\ progress[Len(progress)].stage = "completed"
    /\ progress[Len(progress)].current = 4
    /\ progress[Len(progress)].total = 4

FracLeq(x, y) == x[1] * y[2] <= y[1] * x[2]

\* C32: when handleRateLimitError is called with c consecutive errors recorded
\* and no retry-after hint, the wait it returns is
\* min(maxBackoffTime, minWaitTime x backoffFactor^c) and the counter becomes
\* c + 1; the wait never exceeds maxBackoffTime and does not decrease as c
\* grows; with a hint of s seconds the wait is s x 1000 ms.
C32_BackoffWait ==
  (api.pc # "idle" /\ api.handled # << >>) =>
    LET h == api.handled[1] IN
    /\ api.pc = "backoff" => api.consecutiveErrors = h.c + 1
    /\ h.retryAfter # << >> => h.wait = <<h.retryAfter[1] * 1000, 1>>
    /\ h.retryAfter = << >> =>
         /\ FracLeq(h.wait, backoffTime(h.c)) /\ FracLeq(backoffTime(h.c), h.wait)
         /\ FracLeq(h.wait, <<1000 * maxBackoffTime, 1>>)
         /\ \A c \in 0..h.c : FracLeq(handleRateLimitError(c, << >>).wait, h.wait)

\* C33: after an apiRequest that returned successfully the consecutive-error
\* counter is 0, and until then it equals the number of 429 answers received:
\* other failures do not change it.
C33_CounterCountsThrottles ==
  api.pc # "idle" =>
    LET is429(response) == response = "429" IN
    /\ api.pc = "returned" => api.consecutiveErrors = 0
    /\ api.pc \in {"backoff", "failed"} /\ api.error \notin AuthErrors =>
         api.consecutiveErrors = Len(SelectSeq(api.responses, is429))

\* job j leaves the queue in this step: a dequeue path claims it for a handler
Started(j) ==
  /\ jobs[j].status \notin {"in_progress", "processing"}
  /\ jobs'[j].status \in {"in_progress", "processing"}

\* C34: no job is started before its nextAttempt, and the job a dequeue path
\* takes is, among the jobs eligible at that moment (pending, nextAttempt
\* unset or passed, not in the processing set), one of highest priority and,
\* among those, of earliest creation time.
C34_NeverStartedEarly ==
  [][\A j \in DOMAIN jobs :
       Started(j) =>
         /\ jobs[j].nextAttempt = NoTime \/ jobs[j].nextAttempt <= now
         /\ j \in SortFirst(jobs, Eligible(jobs, processingJobs, now))]_vars

\* C35: areMutuallyConnected(a, b) returns true exactly when b is in the
\* following list fetched for a and a is in the one fetched for b; b's list is
\* fetched only after the first check succeeded; and when a fetch fails the
\* call returns false, it does not throw.
C35_MutualCheck ==
  mutualCheck.pc # "idle" =>
    LET c == mutualCheck
        bInA == c.user1Following # << >> /\ c.user2 \in c.user1Following[1]
        aInB == c.user2Following # << >> /\ c.user1 \in c.user2Following[1]
    IN /\ c.pc = "second" \/ c.user2Following # << >> => bInA
       /\ c.pc = "returned" =>
            /\ c.result \in {<<TRUE>>, <<FALSE>>}
            /\ c.result = <<TRUE>> <=> (bInA /\ aInB)
            /\ c.failed => c.result = <<FALSE>>
            /\ ~c.failed /\ bInA => c.user2Following # << >>

C35_Witness ==
  /\ mutualCheck.pc = "returned"
  /\ mutualCheck.result = <<TRUE>>
  /\ mutualCheck.user1 # mutualCheck.user2
  /\ mutualCheck.user2Following # << >>

TypeOK ==
  /\ \A j \in JobIds : jobs[j].status \in JobStatus
  /\ processingJobs \subseteq JobIds

====
